---------------------------- MODULE Spec2Model ----------------------------
(***************************************************************************)
(* Model of the listing pipeline of the Wallapop motorcycle scraper:       *)
(* the numeric text parsers, the per-model validators, the Cleaner         *)
(* (LimpiadorIntegrado.clean_data) and the Deal Scorer                     *)
(* (RentabilidadCalculator.calculate_rentabilidad).                        *)
(*                                                                         *)
(* Texts are sequences of one-character strings.  A missing cell           *)
(* (None / NaN in the data frame) is the one-element sequence NaN.         *)
(* Decimal numbers are records [num, exp] standing for num / 10^exp with   *)
(* no trailing zero in the fraction, so equal numbers are equal records.   *)
(***************************************************************************)
EXTENDS Integers, Sequences, FiniteSets, TLC

VARIABLES
    text,       \* parser harness: the text handed to a parser
    op,         \* parser harness: which parser was applied ("none" before)
    result,     \* parser harness: what the parser returned
    modelo_key, \* the model profile of the run ("none" in the parser harness)
    moto_data,  \* validator: the candidate record (Título, Precio, Año)
    verdict,    \* validator: "pending", then "accepted" or "rejected"
    df_motos,   \* cleaner: the batch handed to clean_data
    df_clean,   \* cleaner: the batch clean_data returned
    stats,      \* cleaner: the statistics clean_data returned
    df_again,   \* cleaner: clean_data of df_clean
    phase,      \* cleaner: "loaded", "cleaned", "recleaned"; scorer: "loaded", "scored"
    df_final,   \* scorer: the frame calculate_rentabilidad returned
    df_valido,  \* scorer: the rows it scored, with their sub-score columns
    df_sheet,   \* publisher: the rows written to the worksheet
    runner,     \* runner: where a run stands and what it has done
    scraper,    \* scraper: one scrape_model call, its results and its clocks
    all_models, \* run_all: the models it has run and their recorded results
    importer    \* the process's imports: sys.modules and the resolutions made

parserVars == <<text, op, result>>

validatorVars == <<moto_data, verdict>>

cleanerVars == <<df_motos, df_clean, stats, df_again, phase>>

scorerVars == <<df_final, df_valido>>

publisherVars == <<df_sheet>>

runnerVars == <<runner>>

scraperVars == <<scraper>>

allModelsVars == <<all_models>>

importerVars == <<importer>>

nonParserVars ==
    <<modelo_key, validatorVars, cleanerVars, scorerVars, publisherVars, runnerVars,
      scraperVars, allModelsVars, importerVars>>

nonValidatorVars ==
    <<parserVars, cleanerVars, scorerVars, publisherVars, runnerVars,
      scraperVars, allModelsVars, importerVars>>

nonCleanerVars ==
    <<parserVars, validatorVars, scorerVars, publisherVars, runnerVars,
      scraperVars, allModelsVars, importerVars>>

nonScorerVars ==
    <<parserVars, validatorVars, df_clean, stats, df_again, publisherVars, runnerVars,
      scraperVars, allModelsVars, importerVars>>

vars == <<text, op, result, modelo_key, moto_data, verdict,
          df_motos, df_clean, stats, df_again, phase, df_final,
          df_valido, df_sheet, runner, scraper, all_models, importer>>

-----------------------------------------------------------------------------
(* Bounds *)

\* longest text enumerated exhaustively over ParserAlphabet
MaxTextLen == 4

\* most words in a generated title
MaxTitleWords == 3

-----------------------------------------------------------------------------
(* Characters and Python string primitives *)

Digits == {"0", "1", "2", "3", "4", "5", "6", "7", "8", "9"}

DigitVal(c) ==
    CASE c = "0" -> 0 [] c = "1" -> 1 [] c = "2" -> 2 [] c = "3" -> 3
      [] c = "4" -> 4 [] c = "5" -> 5 [] c = "6" -> 6 [] c = "7" -> 7
      [] c = "8" -> 8 [] c = "9" -> 9

NaN == <<"NaN">>

\* pd.isna(x)
IsNa(s) == s = NaN

\* s.count(c)
Count(s, c) == Cardinality({i \in 1..Len(s) : s[i] = c})

\* c in s
HasChar(s, c) == \E i \in 1..Len(s) : s[i] = c

\* s.replace(c, '')
Remove(s, c) == SelectSeq(s, LAMBDA x : x # c)

\* s.replace(c, d) for single characters
ReplaceChar(s, c, d) == [i \in 1..Len(s) |-> IF s[i] = c THEN d ELSE s[i]]

\* position of the first c in s, Len(s)+1 when there is none
FirstPos(s, c) ==
    IF HasChar(s, c) THEN CHOOSE i \in 1..Len(s) : s[i] = c /\ \A j \in 1..(i-1) : s[j] # c
    ELSE Len(s) + 1

\* s.split(c)[0]
Part0(s, c) == SubSeq(s, 1, FirstPos(s, c) - 1)

\* s.split(c)[1] (the text between the first and the second c)
Part1(s, c) ==
    LET rest == SubSeq(s, FirstPos(s, c) + 1, Len(s))
    IN  Part0(rest, c)

\* s.isdigit()
IsDigit(s) == s # <<>> /\ \A i \in 1..Len(s) : s[i] \in Digits

\* needle in s
Contains(s, needle) ==
    \E i \in 0..(Len(s) - Len(needle)) :
        \A j \in 1..Len(needle) : s[i + j] = needle[j]

\* re.findall(r'\d+', s)[0], <<>> when there is no digit
FirstDigitRun(s) ==
    IF \A i \in 1..Len(s) : s[i] \notin Digits THEN <<>>
    ELSE LET b == CHOOSE i \in 1..Len(s) :
                     s[i] \in Digits /\ \A j \in 1..(i-1) : s[j] \notin Digits
             e == CHOOSE i \in b..Len(s) :
                     /\ \A j \in b..i : s[j] \in Digits
                     /\ (i = Len(s) \/ s[i+1] \notin Digits)
         IN  SubSeq(s, b, e)

\* re.sub(r'[^0-9,.]', '', s)
KeepNumeric(s) == SelectSeq(s, LAMBDA x : x \in Digits \cup {",", "."})

RECURSIVE DigitsValue(_)
\* int(s) for a string of digits
DigitsValue(s) ==
    IF s = <<>> THEN 0
    ELSE DigitsValue(SubSeq(s, 1, Len(s) - 1)) * 10 + DigitVal(s[Len(s)])

-----------------------------------------------------------------------------
(* Decimal values *)

RECURSIVE Norm(_, _)
Norm(n, e) == IF e > 0 /\ n % 10 = 0 THEN Norm(n \div 10, e - 1)
              ELSE [num |-> n, exp |-> e]

Dec(n) == [num |-> n, exp |-> 0]

Zero == Dec(0)

RECURSIVE Pow10(_)
Pow10(e) == IF e = 0 THEN 1 ELSE 10 * Pow10(e - 1)

\* a <= b on decimals
DecLeq(a, b) == a.num * Pow10(b.exp) <= b.num * Pow10(a.exp)

\* Python float(s) on a cleaned string (digits, '.' and ','): ValueError
\* unless s is digits with at most one '.', and at least one digit
PyFloat(s) ==
    LET wellFormed == /\ \A i \in 1..Len(s) : s[i] \in Digits \cup {"."}
                      /\ Count(s, ".") <= 1
                      /\ \E i \in 1..Len(s) : s[i] \in Digits
    IN  IF ~wellFormed THEN [ok |-> FALSE, val |-> Zero]
        ELSE [ok |-> TRUE,
              val |-> Norm(DigitsValue(Part0(s, ".") \o Part1(s, ".")),
                           Len(Part1(s, ".")))]

\* outcomes of the body of a try block
Return(v) == [kind |-> "return", val |-> v]
Raise == [kind |-> "raise", val |-> Zero]
FallThrough == [kind |-> "fall", val |-> Zero]

\* return float(s)
ReturnFloat(s) == IF PyFloat(s).ok THEN Return(PyFloat(s).val) ELSE Raise

\* what a parser call gives its caller
Returned(v) == [raised |-> FALSE, val |-> v]
Escaped == [raised |-> TRUE, val |-> Zero]


-----------------------------------------------------------------------------
(* Numeric text parsers of the Cleaner (limpiador_integrado.py) *)

\* not x or pd.isna(x)
Blank(s) == s = <<>> \/ IsNa(s)

\* the try block of _extract_price_number, on the cleaned string
ExtractPriceNumberTry(clean) ==
    IF HasChar(clean, ".") /\ HasChar(clean, ",") THEN
        IF Count(clean, ",") = 1 /\ Len(Part1(clean, ",")) <= 2
        THEN ReturnFloat(Remove(Part0(clean, ","), ".") \o <<".">> \o Part1(clean, ","))
        ELSE ReturnFloat(Remove(Remove(clean, "."), ","))
    ELSE IF HasChar(clean, ".") /\ Count(clean, ".") = 1 THEN
        IF Len(Part1(clean, ".")) <= 2
        THEN ReturnFloat(clean)
        ELSE ReturnFloat(Remove(clean, "."))
    ELSE IF HasChar(clean, ",") /\ Count(clean, ",") = 1 THEN
        IF Len(Part1(clean, ",")) <= 2
        THEN ReturnFloat(ReplaceChar(clean, ",", "."))
        ELSE FallThrough
    ELSE IF IsDigit(clean) THEN ReturnFloat(clean)
    ELSE IF HasChar(clean, ".") THEN
        IF IsDigit(Remove(clean, ".")) THEN ReturnFloat(Remove(clean, "."))
        ELSE FallThrough
    ELSE FallThrough

\* the bare "except: pass" of the Cleaner's parsers: an exception raised
\* in the try block is swallowed and the function returns 0.0
SwallowAll(outcome) ==
    IF outcome.kind = "return" THEN Returned(outcome.val) ELSE Returned(Zero)

\* LimpiadorIntegrado._extract_price_number
_extract_price_number(price_text) ==
    IF Blank(price_text) THEN Returned(Zero)
    ELSE LET clean == KeepNumeric(price_text)
             try == ExtractPriceNumberTry(clean)
             out == IF try.kind = "fall" /\ FirstDigitRun(clean) # <<>>
                    THEN ReturnFloat(FirstDigitRun(clean))
                    ELSE try
         IN  IF clean = <<>> THEN Returned(Zero) ELSE SwallowAll(out)

\* the try block of _extract_km_number, on the cleaned string
ExtractKmNumberTry(clean) ==
    IF /\ HasChar(clean, ",") /\ Count(clean, ",") = 1
       /\ Len(Part1(clean, ",")) <= 2
    THEN ReturnFloat(ReplaceChar(clean, ",", "."))
    ELSE IF HasChar(clean, ".") /\ Count(clean, ".") = 1 THEN
        IF Len(Part1(clean, ".")) <= 2
        THEN ReturnFloat(clean)
        ELSE ReturnFloat(Remove(clean, "."))
    ELSE IF IsDigit(clean) THEN ReturnFloat(clean)
    ELSE IF FirstDigitRun(clean) # <<>> THEN ReturnFloat(FirstDigitRun(clean))
    ELSE FallThrough

\* LimpiadorIntegrado._extract_km_number
_extract_km_number(km_text) ==
    IF Blank(km_text) THEN Returned(Zero)
    ELSE LET clean == KeepNumeric(km_text)
         IN  IF clean = <<>> THEN Returned(Zero)
             ELSE SwallowAll(ExtractKmNumberTry(clean))

-----------------------------------------------------------------------------
(* Numeric text parsers of the Scorer (rentabilidad_calculator.py) *)

\* mutation of CatchValueError: the handler is missing, the error escapes
CatchValueError_Missing(outcome) ==
    IF outcome.kind = "return" THEN Returned(outcome.val) ELSE Escaped

\* "except (ValueError, AttributeError): return 0.0": float() raises
\* ValueError only, so the handler catches whatever the try block raises
CatchValueError(outcome) ==
    IF outcome.kind = "return" THEN Returned(outcome.val) ELSE Returned(Zero)

\* mutation of ExtractPriceTry: a lone '.' is always a decimal point
ExtractPriceTry_DotDecimal(clean) ==
    IF HasChar(clean, ",") /\ HasChar(clean, ".") THEN
        IF Count(clean, ",") = 1 /\ Len(Part1(clean, ",")) <= 2
        THEN ReturnFloat(Remove(Part0(clean, ","), ".") \o <<".">> \o Part1(clean, ","))
        ELSE ReturnFloat(Remove(Remove(clean, "."), ","))
    ELSE IF HasChar(clean, ",") THEN
        IF Count(clean, ",") = 1 /\ Len(Part1(clean, ",")) <= 2
        THEN ReturnFloat(ReplaceChar(clean, ",", "."))
        ELSE ReturnFloat(Remove(clean, ","))
    ELSE ReturnFloat(clean)

\* the try block of _extract_price, on the cleaned string
ExtractPriceTry(clean) ==
    IF HasChar(clean, ",") /\ HasChar(clean, ".") THEN
        IF Count(clean, ",") = 1 /\ Len(Part1(clean, ",")) <= 2
        THEN ReturnFloat(Remove(Part0(clean, ","), ".") \o <<".">> \o Part1(clean, ","))
        ELSE ReturnFloat(Remove(Remove(clean, "."), ","))
    ELSE IF HasChar(clean, ",") THEN
        IF Count(clean, ",") = 1 /\ Len(Part1(clean, ",")) <= 2
        THEN ReturnFloat(ReplaceChar(clean, ",", "."))
        ELSE ReturnFloat(Remove(clean, ","))
    ELSE IF HasChar(clean, ".") THEN
        IF Count(clean, ".") = 1 /\ Len(Part1(clean, ".")) <= 2
        THEN ReturnFloat(clean)
        ELSE ReturnFloat(Remove(clean, "."))
    ELSE ReturnFloat(clean)

\* RentabilidadCalculator._extract_price
_extract_price(price_text) ==
    IF Blank(price_text) THEN Returned(Zero)
    ELSE LET clean == KeepNumeric(price_text)
         IN  IF clean = <<>> THEN Returned(Zero)
             ELSE CatchValueError(ExtractPriceTry(clean))

UpperCase ==
    <<"A", "B", "C", "D", "E", "F", "G", "H", "I", "J", "K", "L", "M",
      "N", "O", "P", "Q", "R", "S", "T", "U", "V", "W", "X", "Y", "Z">>

LowerCase ==
    <<"a", "b", "c", "d", "e", "f", "g", "h", "i", "j", "k", "l", "m",
      "n", "o", "p", "q", "r", "s", "t", "u", "v", "w", "x", "y", "z">>

\* str.lower()
Lower(s) ==
    [i \in 1..Len(s) |->
        IF \E k \in 1..26 : UpperCase[k] = s[i]
        THEN LowerCase[CHOOSE k \in 1..26 : UpperCase[k] = s[i]]
        ELSE s[i]]

Metro == <<"m", "e", "t", "r", "o">>

\* the try block of _extract_km
ExtractKmTry(km_text) ==
    LET km_str == Lower(km_text)
        number == FirstDigitRun(Remove(Remove(km_str, "."), ","))
        km_value == Dec(DigitsValue(number))
    IN  IF number = <<>> THEN Return(Zero)
        ELSE IF Contains(km_str, Metro) /\ km_value.num > 10000
             THEN Return(Norm(km_value.num, 3))
             ELSE Return(km_value)

\* RentabilidadCalculator._extract_km
_extract_km(km_text) ==
    IF Blank(km_text) THEN Returned(Zero)
    ELSE CatchValueError(ExtractKmTry(km_text))

\* datetime.now().year
CurrentYear == 2026

\* re.search(r'(19|20)\d{2}', s): the leftmost match, <<>> when none
YearMatch(s) ==
    LET at(i) == /\ i + 3 <= Len(s)
                 /\ \/ (s[i] = "1" /\ s[i+1] = "9")
                    \/ (s[i] = "2" /\ s[i+1] = "0")
                 /\ s[i+2] \in Digits /\ s[i+3] \in Digits
    IN  IF \E i \in 1..Len(s) : at(i)
        THEN LET i == CHOOSE i \in 1..Len(s) : at(i) /\ \A j \in 1..(i-1) : ~at(j)
             IN  SubSeq(s, i, i + 3)
        ELSE <<>>

\* mutation of ExtractYearTry: the matched year is returned whatever it is
ExtractYearTry_NoRange(year_text) ==
    LET m == YearMatch(year_text)
        year == DigitsValue(m)
    IN  IF m # <<>>
        THEN Return(Dec(year))
        ELSE Return(Zero)

\* the try block of _extract_year
ExtractYearTry(year_text) ==
    LET m == YearMatch(year_text)
        year == DigitsValue(m)
    IN  IF m # <<>> /\ 1990 <= year /\ year <= CurrentYear + 1
        THEN Return(Dec(year))
        ELSE Return(Zero)

\* RentabilidadCalculator._extract_year
_extract_year(year_text) ==
    IF Blank(year_text) THEN Returned(Zero)
    ELSE CatchValueError(ExtractYearTry(year_text))

-----------------------------------------------------------------------------
(* Parser harness: a text is drawn, then one of the five parsers is applied *)

ParserAlphabet == {"0", "1", "2", "9", ".", ","}

\* every text over ParserAlphabet of at most MaxTextLen characters
ShortTexts == UNION {[1..n -> ParserAlphabet] : n \in 0..MaxTextLen}

\* texts of the forms the listings carry: digit groups, separators, suffix
IntGroups == {<<"3">>, <<"7">>, <<"1", "2">>, <<"1", "9">>, <<"1", "0", "0">>}
ThousandGroups == {<<"5", "0", "0">>, <<"0", "0", "0">>, <<"6", "9", "0">>}
DecimalGroups == {<<>>, <<"9">>, <<"9", "0">>, <<"0", "5">>}
Suffixes == {<<>>, <<"€">>, <<" ", "€">>}

DotTexts == {g \o <<".">> \o t \o x : g \in IntGroups, t \in ThousandGroups, x \in Suffixes}
CommaTexts == {g \o <<",">> \o d \o x : g \in IntGroups, d \in DecimalGroups, x \in Suffixes}
SpanishTexts ==
    {g \o <<".">> \o t \o <<",">> \o d \o x :
        g \in IntGroups, t \in ThousandGroups, d \in DecimalGroups, x \in Suffixes}
PlainTexts == {g \o t \o x : g \in IntGroups, t \in ThousandGroups, x \in Suffixes}

NoEspecificado == <<"N", "o", " ", "e", "s", "p", "e", "c", "i", "f", "i", "c", "a", "d", "o">>
Km15000 == <<"1", "5", ".", "0", "0", "0", " ", "k", "m">>
Km15000Kilometros == <<"1", "5", "0", "0", "0", " ", "k", "i", "l", "ó", "m", "e", "t", "r", "o", "s">>
Km12Coma5 == <<"1", "2", ",", "5", " ", "k", "m">>
Precio7Coma690 == <<"7", ",", "6", "9", "0", " ", "€">>
TituloConAnio == <<"H", "o", "n", "d", "a", " ", "C", "B", "1", "2", "5", "R", " ", "2", "0", "2", "1">>
Anio1985 == <<"1", "9", "8", "5">>
Anio2030 == <<"2", "0", "3", "0", " ", "2", "0", "2", "1">>

OtherTexts ==
    {NaN, NoEspecificado, Km15000, Km15000Kilometros, Km12Coma5,
     Precio7Coma690, TituloConAnio, Anio1985, Anio2030}

ParserTexts ==
    ShortTexts \cup DotTexts \cup CommaTexts \cup SpanishTexts \cup PlainTexts
        \cup OtherTexts

NoResult == Returned(Zero)

\* no candidate record
NoMoto == [Titulo |-> <<>>, Precio |-> <<>>, Anio |-> <<>>]

\* the harnesses at rest
ParserIdle == text = <<>> /\ op = "idle" /\ result = NoResult

ValidatorIdle == moto_data = NoMoto /\ verdict = "idle"

CleanerIdle ==
    /\ df_motos = <<>> /\ df_clean = <<>> /\ stats = <<>> /\ df_again = <<>>
    /\ phase = "idle"

ScorerIdle == df_final = <<>> /\ df_valido = <<>>

PublisherIdle == df_sheet = <<>>

\* no run is under way
NoRun == [pc |-> "idle"]

RunnerIdle == runner = NoRun

\* no scrape is under way
ScraperIdle == scraper = [pc |-> "idle"]

\* run_all has not been called
AllModelsIdle == all_models = [pc |-> "idle"]

\* nothing has been imported
ImporterIdle == importer = [pc |-> "idle"]

ParserInit ==
    /\ text \in ParserTexts
    /\ op = "none"
    /\ result = NoResult
    /\ modelo_key = "none"
    /\ ValidatorIdle
    /\ CleanerIdle
    /\ ScorerIdle
    /\ PublisherIdle
    /\ RunnerIdle
    /\ ScraperIdle
    /\ AllModelsIdle
    /\ ImporterIdle

ApplyExtractPriceNumber ==
    /\ op = "none"
    /\ op' = "_extract_price_number"
    /\ result' = _extract_price_number(text)
    /\ UNCHANGED <<text, nonParserVars>>

ApplyExtractPrice ==
    /\ op = "none"
    /\ op' = "_extract_price"
    /\ result' = _extract_price(text)
    /\ UNCHANGED <<text, nonParserVars>>

ApplyExtractKmNumber ==
    /\ op = "none"
    /\ op' = "_extract_km_number"
    /\ result' = _extract_km_number(text)
    /\ UNCHANGED <<text, nonParserVars>>

ApplyExtractKm ==
    /\ op = "none"
    /\ op' = "_extract_km"
    /\ result' = _extract_km(text)
    /\ UNCHANGED <<text, nonParserVars>>

ApplyExtractYear ==
    /\ op = "none"
    /\ op' = "_extract_year"
    /\ result' = _extract_year(text)
    /\ UNCHANGED <<text, nonParserVars>>

ParserNext ==
    \/ ApplyExtractPriceNumber
    \/ ApplyExtractPrice
    \/ ApplyExtractKmNumber
    \/ ApplyExtractKm
    \/ ApplyExtractYear

SpecParser == ParserInit /\ [][ParserNext]_vars

PriceOps == {"_extract_price_number", "_extract_price"}

ParserTypeOK ==
    /\ op \in {"none", "_extract_price_number", "_extract_price",
               "_extract_km_number", "_extract_km", "_extract_year"}
    /\ result.raised \in BOOLEAN
    /\ result.val.num \in Nat /\ result.val.exp \in Nat

-----------------------------------------------------------------------------
(* Claims about the numeric text parsers (SpecParser) *)

GroupValue(g) == DigitsValue(g)

\* C1: both price parsers (_extract_price_number of the Cleaner and
\* _extract_price of the Scorer) read a single '.' followed by three digits
\* as a thousands separator, a single ',' followed by at most two digits as
\* the decimal separator and '.' with ',' as Spanish thousands + decimal;
\* so "3.500€" is 3500.0, "19,90 €" is 19.90, "12.500,90€" is 12500.90 and
\* "7690" is 7690.0.
C1_PriceFormats ==
    op \in PriceOps =>
        /\ \A g \in IntGroups, t \in ThousandGroups, x \in Suffixes :
              /\ text = g \o <<".">> \o t \o x =>
                    result = Returned(Dec(GroupValue(g) * 1000 + GroupValue(t)))
              /\ text = g \o t \o x =>
                    result = Returned(Dec(GroupValue(g) * 1000 + GroupValue(t)))
              /\ \A d \in DecimalGroups :
                    text = g \o <<".">> \o t \o <<",">> \o d \o x =>
                        result = Returned(Norm(GroupValue(g \o t \o d), Len(d)))
        /\ \A g \in IntGroups, d \in DecimalGroups, x \in Suffixes :
              text = g \o <<",">> \o d \o x =>
                  result = Returned(Norm(GroupValue(g \o d), Len(d)))
        /\ text = <<"3", ".", "5", "0", "0", "€">> => result = Returned(Dec(3500))
        /\ text = <<"1", "9", ",", "9", "0", " ", "€">> => result = Returned(Norm(1990, 2))
        /\ text = <<"1", "2", ".", "5", "0", "0", ",", "9", "0", "€">> =>
              result = Returned(Norm(1250090, 2))
        /\ text = <<"7", "6", "9", "0">> => result = Returned(Dec(7690))

\* C1 witness: the Cleaner's parser has read "12.500,90€" as 12500.9
C1_Witness ==
    /\ op = "_extract_price_number"
    /\ text = <<"1", "2", ".", "5", "0", "0", ",", "9", "0", "€">>
    /\ result = Returned([num |-> 125009, exp |-> 1])

HasDigit(s) == \E i \in 1..Len(s) : s[i] \in Digits

\* C2: the five parsers are total: whatever the text (empty, missing, only
\* separators, several separators, no digit at all) no exception leaves
\* them, and a text without any digit gives 0.0 (price, mileage) or 0 (year).
C2_ParsersTotal ==
    op # "none" =>
        /\ ~result.raised
        /\ (Blank(text) \/ ~HasDigit(text)) => result.val = Zero

\* C2 witness: the Scorer's price parser was given ",." (float(".") raises
\* ValueError inside it) and returned 0.0
C2_Witness ==
    /\ op = "_extract_price"
    /\ text = <<",", ".">>
    /\ result = Returned(Zero)

-----------------------------------------------------------------------------
(* Regular expressions of the validators (Python re, on lower-cased text) *)

Letters == {LowerCase[k] : k \in 1..26} \cup {UpperCase[k] : k \in 1..26}

\* \w
IsWordChar(c) == c \in Letters \cup Digits \cup {"_", "ñ", "í", "ó"}

\* pattern items: one character of a class, a starred class, a class
\* repeated at least once, a word boundary
Lit(c) == [k |-> "one", cs |-> {c}]
SepStar == [k |-> "star", cs |-> {"-", " "}]
SpaceStar == [k |-> "star", cs |-> {" "}]
PunctOne == [k |-> "one", cs |-> {"-", ".", "/"}]
DigitPlus == [k |-> "plus", cs |-> Digits]
WB == [k |-> "wb", cs |-> {}]
Rep(cs, lo, hi) == [k |-> "rep", cs |-> cs, lo |-> lo, hi |-> hi]

\* \b at the gap before s[pos]
AtBoundary(s, pos) ==
    LET before == pos > 1 /\ IsWordChar(s[pos - 1])
        after == pos <= Len(s) /\ IsWordChar(s[pos])
    IN  before # after

\* how many characters of class cs follow from s[pos] on
RunLength(s, pos, cs) ==
    Cardinality({n \in 1..(Len(s) - pos + 1) :
                    \A j \in pos..(pos + n - 1) : s[j] \in cs})

RECURSIVE MatchAt(_, _, _, _)
\* pattern items i.. match s from position pos on
MatchAt(pattern, i, s, pos) ==
    IF i > Len(pattern) THEN TRUE
    ELSE LET it == pattern[i]
         IN  CASE it.k = "wb" ->
                    AtBoundary(s, pos) /\ MatchAt(pattern, i + 1, s, pos)
               [] it.k = "one" ->
                    /\ pos <= Len(s)
                    /\ s[pos] \in it.cs
                    /\ MatchAt(pattern, i + 1, s, pos + 1)
               [] it.k = "star" ->
                    \E n \in 0..RunLength(s, pos, it.cs) :
                        MatchAt(pattern, i + 1, s, pos + n)
               [] it.k = "plus" ->
                    \E n \in 1..RunLength(s, pos, it.cs) :
                        MatchAt(pattern, i + 1, s, pos + n)
               [] it.k = "rep" ->
                    \E n \in it.lo..it.hi :
                        /\ n <= RunLength(s, pos, it.cs)
                        /\ MatchAt(pattern, i + 1, s, pos + n)

\* re.search(pattern, s) is not None
Search(pattern, s) == \E pos \in 1..(Len(s) + 1) : MatchAt(pattern, 1, s, pos)

\* any(re.search(p, s) for p in patterns)
SearchAny(patterns, s) == \E pattern \in patterns : Search(pattern, s)

-----------------------------------------------------------------------------
(* Model profiles and the validators' patterns *)

\* config.MODELOS_CONFIG
MODELOS_CONFIG ==
    [m \in {"cb125r", "pcx125", "agility125", "z900", "mt07"} |->
        CASE m = "cb125r" ->
            [nombre |-> <<"H", "o", "n", "d", "a", " ", "C", "B", "1", "2", "5", "R">>,
             precio_min |-> 1000, precio_max |-> 4500, km_max |-> 25000,
             anio_min |-> 2018, anio_max |-> 2025,
             keywords |-> {<<"h", "o", "n", "d", "a", " ", "c", "b", "1", "2", "5", "r">>,
                           <<"h", "o", "n", "d", "a", " ", "c", "b", " ", "1", "2", "5", " ", "r">>,
                           <<"c", "b", "1", "2", "5", "r">>,
                           <<"c", "b", " ", "1", "2", "5", " ", "r">>},
             exclude_keywords |-> {<<"c", "b", "1", "2", "5", "f">>,
                                   <<"c", "b", "2", "5", "0", "r">>,
                                   <<"c", "b", "5", "0", "0", "r">>,
                                   <<"c", "b", "6", "5", "0", "r">>}]
          [] m = "pcx125" ->
            [nombre |-> <<"H", "o", "n", "d", "a", " ", "P", "C", "X", "1", "2", "5">>,
             precio_min |-> 1200, precio_max |-> 4000, km_max |-> 30000,
             anio_min |-> 2016, anio_max |-> 2025,
             keywords |-> {<<"h", "o", "n", "d", "a", " ", "p", "c", "x", "1", "2", "5">>,
                           <<"h", "o", "n", "d", "a", " ", "p", "c", "x", " ", "1", "2", "5">>,
                           <<"p", "c", "x", "1", "2", "5">>,
                           <<"p", "c", "x", " ", "1", "2", "5">>},
             exclude_keywords |-> {<<"p", "c", "x", "1", "5", "0">>,
                                   <<"p", "c", "x", "1", "6", "0">>,
                                   <<"f", "o", "r", "z", "a">>}]
          [] m = "agility125" ->
            [nombre |-> <<"K", "y", "m", "c", "o", " ", "A", "g", "i", "l", "i", "t", "y", "1", "2", "5">>,
             precio_min |-> 800, precio_max |-> 3000, km_max |-> 35000,
             anio_min |-> 2014, anio_max |-> 2025,
             keywords |-> {<<"k", "y", "m", "c", "o", " ", "a", "g", "i", "l", "i", "t", "y", "1", "2", "5">>,
                           <<"k", "y", "m", "c", "o", " ", "a", "g", "i", "l", "i", "t", "y", " ", "1", "2", "5">>,
                           <<"a", "g", "i", "l", "i", "t", "y", "1", "2", "5">>,
                           <<"a", "g", "i", "l", "i", "t", "y", " ", "1", "2", "5">>},
             exclude_keywords |-> {<<"a", "g", "i", "l", "i", "t", "y", "5", "0">>,
                                   <<"a", "g", "i", "l", "i", "t", "y", "1", "6">>,
                                   <<"a", "g", "i", "l", "i", "t", "y", "2", "0", "0">>,
                                   <<"p", "e", "o", "p", "l", "e">>}]
          [] m = "z900" ->
            [nombre |-> <<"K", "a", "w", "a", "s", "a", "k", "i", " ", "Z", "9", "0", "0">>,
             precio_min |-> 4500, precio_max |-> 9000, km_max |-> 30000,
             anio_min |-> 2017, anio_max |-> 2025,
             keywords |-> {<<"k", "a", "w", "a", "s", "a", "k", "i", " ", "z", "9", "0", "0">>,
                           <<"k", "a", "w", "a", "s", "a", "k", "i", " ", "z", " ", "9", "0", "0">>,
                           <<"z", "9", "0", "0">>,
                           <<"z", " ", "9", "0", "0">>},
             exclude_keywords |-> {<<"z", "8", "0", "0">>,
                                   <<"z", "6", "5", "0">>,
                                   <<"z", "1", "0", "0", "0">>,
                                   <<"z", "3", "0", "0">>}]
          [] m = "mt07" ->
            [nombre |-> <<"Y", "a", "m", "a", "h", "a", " ", "M", "T", "-", "0", "7">>,
             precio_min |-> 3000, precio_max |-> 7500, km_max |-> 40000,
             anio_min |-> 2014, anio_max |-> 2025,
             keywords |-> {<<"y", "a", "m", "a", "h", "a", " ", "m", "t", "0", "7">>,
                           <<"y", "a", "m", "a", "h", "a", " ", "m", "t", "-", "0", "7">>,
                           <<"y", "a", "m", "a", "h", "a", " ", "m", "t", " ", "0", "7">>,
                           <<"m", "t", "0", "7">>,
                           <<"m", "t", "-", "0", "7">>},
             exclude_keywords |-> {<<"m", "t", "0", "3">>,
                                   <<"m", "t", "0", "9">>,
                                   <<"m", "t", "1", "0">>,
                                   <<"m", "t", "1", "2", "5">>}]
    ]

\* ScraperZ900.model_patterns
Z900ModelPatterns ==
    {<<WB, Lit("z"), SepStar, Lit("9"), Lit("0"), Lit("0"), WB>>,
     <<WB, Lit("z"), SpaceStar, Lit("9"), Lit("0"), Lit("0"), WB>>,
     <<WB, Lit("z"), SpaceStar, PunctOne, SpaceStar, Lit("9"), Lit("0"), Lit("0"), WB>>,
     <<WB, Lit("z"), SepStar, Lit("9"), SepStar, Lit("0"), SepStar, Lit("0"), WB>>,
     <<WB, Lit("z"), Lit("9"), Lit("0"), Lit("0"), SepStar, Lit("r"), Lit("s"), WB>>,
     <<WB, Lit("z"), Lit("9"), Lit("0"), Lit("0"), SepStar, Lit("e"), WB>>}

\* ScraperZ900.exclude_patterns
Z900ExcludePatterns ==
    {<<WB, Lit("z"), SepStar, Lit("8"), Lit("0"), Lit("0"), WB>>,
     <<WB, Lit("z"), SepStar, Lit("6"), Lit("5"), Lit("0"), WB>>,
     <<WB, Lit("z"), SepStar, Lit("1"), Lit("0"), Lit("0"), Lit("0"), WB>>,
     <<WB, Lit("z"), SepStar, Lit("3"), Lit("0"), Lit("0"), WB>>,
     <<WB, Lit("z"), SepStar, Lit("2"), Lit("5"), Lit("0"), WB>>,
     <<WB, Lit("z"), Lit("x"), SepStar, DigitPlus, WB>>,
     <<WB, Lit("e"), Lit("r"), SepStar, Lit("6"), WB>>,
     <<WB, Lit("n"), Lit("i"), Lit("n"), Lit("j"), Lit("a"), WB>>}

\* ScraperZ900._is_kawasaki_brand: brand patterns, then the Z900 patterns
KawasakiPatterns ==
    {<<WB, Lit("k"), Lit("a"), Lit("w"), Lit("a"), Lit("s"), Lit("a"), Lit("k"), Lit("i"), WB>>,
     <<WB, Lit("k"), Lit("a"), Lit("w"), Lit("a"), WB>>,
     <<WB, Lit("k"), Lit("a"), Lit("w"), Lit("a"), Lit("s"), Lit("a"), Lit("k"), Lit("y"), WB>>,
     <<WB, Lit("z"), SepStar, Lit("9"), Lit("0"), Lit("0"), WB>>,
     <<WB, Lit("z"), SpaceStar, Lit("9"), Lit("0"), Lit("0"), WB>>}

\* ScraperPCX125.model_patterns
PCX125ModelPatterns ==
    {<<WB, Lit("p"), Lit("c"), Lit("x"), SepStar, Lit("1"), Lit("2"), Lit("5"), WB>>,
     <<WB, Lit("p"), Lit("c"), Lit("x"), SpaceStar, Lit("1"), Lit("2"), Lit("5"), WB>>,
     <<WB, Lit("p"), Lit("c"), Lit("x"), SpaceStar, PunctOne, SpaceStar, Lit("1"), Lit("2"), Lit("5"), WB>>,
     <<WB, Lit("p"), SepStar, Lit("c"), SepStar, Lit("x"), SepStar, Lit("1"), Lit("2"), Lit("5"), WB>>}

\* ScraperPCX125.exclude_patterns
PCX125ExcludePatterns ==
    {<<WB, Lit("p"), Lit("c"), Lit("x"), SepStar, Lit("1"), Lit("5"), Lit("0"), WB>>,
     <<WB, Lit("p"), Lit("c"), Lit("x"), SepStar, Lit("1"), Lit("6"), Lit("0"), WB>>,
     <<WB, Lit("f"), Lit("o"), Lit("r"), Lit("z"), Lit("a"), WB>>,
     <<WB, Lit("s"), Lit("h"), SepStar, DigitPlus, WB>>,
     <<WB, Lit("d"), Lit("y"), Lit("l"), Lit("a"), Lit("n"), WB>>,
     <<WB, Lit("x"), Lit("m"), Lit("a"), Lit("x"), WB>>}

\* ScraperPCX125._is_honda_brand
HondaPatterns ==
    {<<WB, Lit("h"), Lit("o"), Lit("n"), Lit("d"), Lit("a"), WB>>,
     <<WB, Lit("h"), Lit("o"), Lit("n"), Lit("d"), WB>>}

\* ScraperMT07.model_patterns
MT07ModelPatterns ==
    {<<WB, Lit("m"), Lit("t"), SepStar, Lit("0"), Lit("7"), WB>>,
     <<WB, Lit("m"), Lit("t"), SepStar, Lit("7"), WB>>,
     <<WB, Lit("m"), Lit("t"), SpaceStar, Lit("0"), Lit("7"), WB>>,
     <<WB, Lit("m"), Lit("t"), SpaceStar, Lit("7"), WB>>,
     <<WB, Lit("m"), Lit("t"), SpaceStar, PunctOne, SpaceStar, Lit("0"), Lit("7"), WB>>,
     <<WB, Lit("m"), Lit("t"), SpaceStar, PunctOne, SpaceStar, Lit("7"), WB>>,
     <<WB, Lit("m"), SepStar, Lit("t"), SepStar, Lit("0"), Lit("7"), WB>>,
     <<WB, Lit("m"), SepStar, Lit("t"), SepStar, Lit("7"), WB>>}

\* ScraperMT07.exclude_patterns
MT07ExcludePatterns ==
    {<<WB, Lit("m"), Lit("t"), SepStar, Lit("0"), Lit("3"), WB>>,
     <<WB, Lit("m"), Lit("t"), SepStar, Lit("0"), Lit("9"), WB>>,
     <<WB, Lit("m"), Lit("t"), SepStar, Lit("1"), Lit("0"), WB>>,
     <<WB, Lit("m"), Lit("t"), SepStar, Lit("1"), Lit("2"), Lit("5"), WB>>,
     <<WB, Lit("m"), Lit("t"), SepStar, Lit("1"), Lit("5"), WB>>,
     <<WB, Lit("t"), Lit("r"), Lit("a"), Lit("c"), Lit("e"), Lit("r"), WB>>,
     <<WB, Lit("x"), Lit("m"), Lit("a"), Lit("x"), WB>>,
     <<WB, Lit("t"), Lit("m"), Lit("a"), Lit("x"), WB>>,
     <<WB, Lit("f"), Lit("z"), SepStar, DigitPlus, WB>>}

\* ScraperMT07._is_yamaha_brand: brand patterns, then the MT-07 patterns
YamahaPatterns ==
    {<<WB, Lit("y"), Lit("a"), Lit("m"), Lit("a"), Lit("h"), Lit("a"), WB>>,
     <<WB, Lit("y"), Lit("a"), Lit("m"), Lit("h"), Lit("a"), WB>>,
     <<WB, Lit("y"), Lit("m"), Lit("a"), Lit("h"), Lit("a"), WB>>,
     <<WB, Lit("m"), Lit("t"), SepStar, Lit("0"), Lit("7"), WB>>,
     <<WB, Lit("m"), Lit("t"), SepStar, Lit("7"), WB>>}

\* ScraperAgility125.model_patterns
Agility125ModelPatterns ==
    {<<WB, Lit("a"), Lit("g"), Lit("i"), Lit("l"), Lit("i"), Lit("t"), Lit("y"), SepStar, Lit("1"), Lit("2"), Lit("5"), WB>>,
     <<WB, Lit("a"), Lit("g"), Lit("i"), Lit("l"), Lit("i"), Lit("t"), Lit("y"), SpaceStar, Lit("1"), Lit("2"), Lit("5"), WB>>,
     <<WB, Lit("a"), Lit("g"), Lit("i"), Lit("l"), Lit("i"), Lit("t"), Lit("y"), SpaceStar, PunctOne, SpaceStar, Lit("1"), Lit("2"), Lit("5"), WB>>,
     <<WB, Lit("a"), SepStar, Lit("g"), SepStar, Lit("i"), SepStar, Lit("l"), SepStar, Lit("i"), SepStar, Lit("t"), SepStar, Lit("y"), SepStar, Lit("1"), Lit("2"), Lit("5"), WB>>}

\* ScraperAgility125.exclude_patterns
Agility125ExcludePatterns ==
    {<<WB, Lit("a"), Lit("g"), Lit("i"), Lit("l"), Lit("i"), Lit("t"), Lit("y"), SepStar, Lit("5"), Lit("0"), WB>>,
     <<WB, Lit("a"), Lit("g"), Lit("i"), Lit("l"), Lit("i"), Lit("t"), Lit("y"), SepStar, Lit("1"), Lit("6"), WB>>,
     <<WB, Lit("a"), Lit("g"), Lit("i"), Lit("l"), Lit("i"), Lit("t"), Lit("y"), SepStar, Lit("2"), Lit("0"), Lit("0"), WB>>,
     <<WB, Lit("a"), Lit("g"), Lit("i"), Lit("l"), Lit("i"), Lit("t"), Lit("y"), SepStar, Lit("1"), Lit("5"), Lit("0"), WB>>,
     <<WB, Lit("p"), Lit("e"), Lit("o"), Lit("p"), Lit("l"), Lit("e"), WB>>,
     <<WB, Lit("s"), Lit("u"), Lit("p"), Lit("e"), Lit("r"), SepStar, Lit("8"), WB>>,
     <<WB, Lit("d"), Lit("o"), Lit("w"), Lit("n"), Lit("t"), Lit("o"), Lit("w"), Lit("n"), WB>>,
     <<WB, Lit("x"), Lit("c"), Lit("i"), Lit("t"), Lit("i"), Lit("n"), Lit("g"), WB>>,
     <<WB, Lit("m"), Lit("y"), Lit("r"), Lit("o"), Lit("a"), Lit("d"), WB>>}

\* ScraperAgility125._is_kymco_brand: brand patterns, then the Agility patterns
KymcoPatterns ==
    {<<WB, Lit("k"), Lit("y"), Lit("m"), Lit("c"), Lit("o"), WB>>,
     <<WB, Lit("k"), Lit("i"), Lit("m"), Lit("c"), Lit("o"), WB>>,
     <<WB, Lit("k"), Lit("i"), Lit("m"), Lit("k"), Lit("o"), WB>>,
     <<WB, Lit("a"), Lit("g"), Lit("i"), Lit("l"), Lit("i"), Lit("t"), Lit("y"), SepStar, Lit("1"), Lit("2"), Lit("5"), WB>>,
     <<WB, Lit("a"), Lit("g"), Lit("i"), Lit("l"), Lit("i"), Lit("t"), Lit("y"), SpaceStar, Lit("1"), Lit("2"), Lit("5"), WB>>}

\* validate_snippet_cb125r_FIXED: honda_keywords
honda_keywords ==
    {<<"h", "o", "n", "d", "a">>,
     <<"h", "a", "n", "d", "a">>}

\* validate_snippet_cb125r_FIXED: cb125r_keywords
cb125r_keywords ==
    {<<"c", "b", "1", "2", "5", "r">>,
     <<"c", "b", " ", "1", "2", "5", " ", "r">>,
     <<"c", "b", " ", "1", "2", "5", "r">>,
     <<"c", "b", "-", "1", "2", "5", "-", "r">>}

Models == DOMAIN MODELOS_CONFIG

-----------------------------------------------------------------------------
(* Validators *)

\* re.search(r'(20[0-9]{2})', s): the leftmost match, <<>> when none
YearMatch20(s) ==
    LET at(i) == /\ i + 3 <= Len(s)
                 /\ s[i] = "2" /\ s[i+1] = "0"
                 /\ s[i+2] \in Digits /\ s[i+3] \in Digits
    IN  IF \E i \in 1..Len(s) : at(i)
        THEN LET i == CHOOSE i \in 1..Len(s) : at(i) /\ \A j \in 1..(i-1) : ~at(j)
             IN  SubSeq(s, i, i + 3)
        ELSE <<>>

\* int(re.findall(r'\d+', precio_text.replace('.', '').replace(',', ''))[0]),
\* -1 when there is no digit
FirstNumber(precio_text) ==
    LET run == FirstDigitRun(Remove(Remove(precio_text, "."), ","))
    IN  IF run = <<>> THEN -1 ELSE DigitsValue(run)

\* ScraperZ900/PCX125/MT07/Agility125._is_valid_price_range (same code)
_is_valid_price_range(precio_text, config) ==
    IF precio_text = <<>> THEN TRUE
    ELSE IF FirstNumber(precio_text) = -1 THEN TRUE
    ELSE /\ config.precio_min <= FirstNumber(precio_text)
         /\ FirstNumber(precio_text) <= config.precio_max

\* ScraperZ900/PCX125/MT07/Agility125._is_valid_year_range (same code)
_is_valid_year_range(anio_text, config) ==
    IF anio_text = <<>> THEN TRUE
    ELSE IF YearMatch20(anio_text) = <<>> THEN TRUE
    ELSE /\ config.anio_min <= DigitsValue(YearMatch20(anio_text))
         /\ DigitsValue(YearMatch20(anio_text)) <= config.anio_max

\* combined_text = f"{titulo} {descripcion}" with no 'Descripcion' in the record
CombinedText(moto) == Lower(moto.Titulo) \o <<" ">>

\* the five steps validate_moto_data shares in the four BaseScraper subclasses
ValidateSteps(moto, config, brand, model, exclude) ==
    /\ SearchAny(brand, CombinedText(moto))
    /\ SearchAny(model, CombinedText(moto))
    /\ ~SearchAny(exclude, CombinedText(moto))
    /\ _is_valid_price_range(moto.Precio, config)
    /\ _is_valid_year_range(moto.Anio, config)

\* ScraperZ900.validate_moto_data
ValidateMotoDataZ900(moto) ==
    ValidateSteps(moto, MODELOS_CONFIG["z900"],
                  KawasakiPatterns, Z900ModelPatterns, Z900ExcludePatterns)

\* ScraperPCX125.validate_moto_data
ValidateMotoDataPCX125(moto) ==
    ValidateSteps(moto, MODELOS_CONFIG["pcx125"],
                  HondaPatterns, PCX125ModelPatterns, PCX125ExcludePatterns)

\* ScraperMT07.validate_moto_data
ValidateMotoDataMT07(moto) ==
    ValidateSteps(moto, MODELOS_CONFIG["mt07"],
                  YamahaPatterns, MT07ModelPatterns, MT07ExcludePatterns)

\* ScraperAgility125.validate_moto_data
ValidateMotoDataAgility125(moto) ==
    ValidateSteps(moto, MODELOS_CONFIG["agility125"],
                  KymcoPatterns, Agility125ModelPatterns, Agility125ExcludePatterns)

\* any(keyword in title_lower for keyword in keywords)
ContainsAny(s, keywords) == \E kw \in keywords : Contains(s, kw)

\* int(''.join(re.findall(r'\d+', price_text.replace('.', '').replace(',', '')))),
\* -1 when there is no digit
JoinedNumber(price_text) ==
    LET digits == SelectSeq(price_text, LAMBDA c : c \in Digits)
    IN  IF digits = <<>> THEN -1 ELSE DigitsValue(digits)

\* the price range written in validate_snippet_cb125r_FIXED
SnippetPrecioMin == 1500
SnippetPrecioMax == 5000

\* validate_snippet_cb125r_FIXED, on the title and price text of the snippet
validate_snippet_cb125r_FIXED(moto) ==
    /\ ~(moto.Titulo = <<>> \/ Len(moto.Titulo) < 3)
    /\ \/ ContainsAny(Lower(moto.Titulo), honda_keywords)
       \/ ContainsAny(Lower(moto.Titulo), cb125r_keywords)
    /\ \/ moto.Precio = <<>>
       \/ JoinedNumber(moto.Precio) = -1
       \/ /\ SnippetPrecioMin <= JoinedNumber(moto.Precio)
          /\ JoinedNumber(moto.Precio) <= SnippetPrecioMax

\* the validator of each model
Validator(m, moto) ==
    CASE m = "z900" -> ValidateMotoDataZ900(moto)
      [] m = "pcx125" -> ValidateMotoDataPCX125(moto)
      [] m = "mt07" -> ValidateMotoDataMT07(moto)
      [] m = "agility125" -> ValidateMotoDataAgility125(moto)
      [] m = "cb125r" -> validate_snippet_cb125r_FIXED(moto)

-----------------------------------------------------------------------------
(* Validator harness: a model and a candidate are drawn, then validated *)

\* words of the titles generated for each model
TitleWords(m) ==
    CASE m = "z900" -> {<<"k", "a", "w", "a", "s", "a", "k", "i">>, <<"Z">>, <<"9", "0", "0">>, <<"z", "9", "0", "0">>, <<"z", "8", "0", "0">>}
      [] m = "pcx125" -> {<<"h", "o", "n", "d", "a">>, <<"P", "C", "X">>, <<"1", "2", "5">>, <<"p", "c", "x", "1", "2", "5">>, <<"p", "c", "x", "1", "5", "0">>}
      [] m = "mt07" -> {<<"y", "a", "m", "a", "h", "a">>, <<"M", "T">>, <<"0", "7">>, <<"m", "t", "0", "7">>, <<"m", "t", "0", "9">>}
      [] m = "agility125" -> {<<"k", "y", "m", "c", "o">>, <<"A", "g", "i", "l", "i", "t", "y">>, <<"1", "2", "5">>, <<"a", "g", "i", "l", "i", "t", "y", "1", "2", "5">>, <<"a", "g", "i", "l", "i", "t", "y", "5", "0">>}
      [] m = "cb125r" -> {<<"h", "o", "n", "d", "a">>, <<"C", "B">>, <<"1", "2", "5", " ", "r">>, <<"c", "b", "1", "2", "5", "r">>, <<"c", "b", "1", "2", "5", "f">>}

TitleSeparators == {<<>>, <<" ">>, <<"-">>}

RECURSIVE TitlesOfWords(_, _)
\* the titles of exactly n words
TitlesOfWords(m, n) ==
    IF n = 1 THEN TitleWords(m)
    ELSE {t \o sep \o w :
            t \in TitlesOfWords(m, n - 1), sep \in TitleSeparators, w \in TitleWords(m)}

GeneratedTitles(m) == UNION {TitlesOfWords(m, n) : n \in 1..MaxTitleWords}

SinTitulo == <<"S", "i", "n", " ", "t", "í", "t", "u", "l", "o">>

\* the titles tried with every price and year text
CoreTitles(m) == {MODELOS_CONFIG[m].nombre, SinTitulo} \cup MODELOS_CONFIG[m].keywords

PrecioTexts ==
    {<<>>, NoEspecificado,
     <<"4", "0", "0", " ", "€">>,
     <<"1", ".", "2", "0", "0", " ", "€">>,
     <<"3", ".", "5", "0", "0", " ", "€">>,
     <<"4", ".", "8", "0", "0", " ", "€">>,
     <<"8", ".", "0", "0", "0", " ", "€">>,
     <<"1", "2", ".", "5", "0", "0", " ", "€">>}

AnioTexts ==
    {<<>>, NoEspecificado,
     <<"2", "0", "1", "3">>, <<"2", "0", "1", "6">>, <<"2", "0", "2", "0">>, <<"2", "0", "2", "6">>}

Anio2020 == <<"2", "0", "2", "0">>

ValidatorInit ==
    /\ modelo_key \in Models
    /\ verdict = "pending"
    /\ \/ \E t \in GeneratedTitles(modelo_key) :
             moto_data = [Titulo |-> t, Precio |-> NoEspecificado, Anio |-> Anio2020]
       \/ \E t \in CoreTitles(modelo_key), p \in PrecioTexts, y \in AnioTexts :
             moto_data = [Titulo |-> t, Precio |-> p, Anio |-> y]
    /\ ParserIdle
    /\ CleanerIdle
    /\ ScorerIdle
    /\ PublisherIdle
    /\ RunnerIdle
    /\ ScraperIdle
    /\ AllModelsIdle
    /\ ImporterIdle

Verdict(ok) == IF ok THEN "accepted" ELSE "rejected"

ValidateZ900 ==
    /\ modelo_key = "z900" /\ verdict = "pending"
    /\ verdict' = Verdict(ValidateMotoDataZ900(moto_data))
    /\ UNCHANGED <<modelo_key, moto_data, nonValidatorVars>>

ValidatePCX125 ==
    /\ modelo_key = "pcx125" /\ verdict = "pending"
    /\ verdict' = Verdict(ValidateMotoDataPCX125(moto_data))
    /\ UNCHANGED <<modelo_key, moto_data, nonValidatorVars>>

ValidateMT07 ==
    /\ modelo_key = "mt07" /\ verdict = "pending"
    /\ verdict' = Verdict(ValidateMotoDataMT07(moto_data))
    /\ UNCHANGED <<modelo_key, moto_data, nonValidatorVars>>

ValidateAgility125 ==
    /\ modelo_key = "agility125" /\ verdict = "pending"
    /\ verdict' = Verdict(ValidateMotoDataAgility125(moto_data))
    /\ UNCHANGED <<modelo_key, moto_data, nonValidatorVars>>

ValidateSnippetCB125R ==
    /\ modelo_key = "cb125r" /\ verdict = "pending"
    /\ verdict' = Verdict(validate_snippet_cb125r_FIXED(moto_data))
    /\ UNCHANGED <<modelo_key, moto_data, nonValidatorVars>>

ValidatorNext ==
    \/ ValidateZ900
    \/ ValidatePCX125
    \/ ValidateMT07
    \/ ValidateAgility125
    \/ ValidateSnippetCB125R

SpecValidator == ValidatorInit /\ [][ValidatorNext]_vars

-----------------------------------------------------------------------------
(* Claims about the validators *)

Profile == MODELOS_CONFIG[modelo_key]

\* the title holds one of the profile's configured exclusion keywords
HasExclusionKeyword == ContainsAny(Lower(moto_data.Titulo), Profile.exclude_keywords)

\* the title holds one of the profile's configured inclusion keywords
HasInclusionKeyword == ContainsAny(Lower(moto_data.Titulo), Profile.keywords)

\* the price the candidate carries, -1 when it carries none; the price texts
\* drawn are whole euros with dotted thousands, which every reading agrees on
CarriedPrice == FirstNumber(moto_data.Precio)

PriceInProfile ==
    Profile.precio_min <= CarriedPrice /\ CarriedPrice <= Profile.precio_max

\* the year the candidate carries, -1 when it carries none
CarriedYear ==
    IF YearMatch20(moto_data.Anio) = <<>> THEN -1
    ELSE DigitsValue(YearMatch20(moto_data.Anio))

YearInProfile ==
    Profile.anio_min <= CarriedYear /\ CarriedYear <= Profile.anio_max

\* the candidate passes the validator once its price and year are left out
IdentityMatches ==
    Validator(modelo_key, [moto_data EXCEPT !.Precio = <<>>, !.Anio = <<>>])

\* the candidate passes the validator once its price is left out
PassesWithoutPrice == Validator(modelo_key, [moto_data EXCEPT !.Precio = <<>>])

\* C3: for each of the five profiles, a title holding one of the profile's
\* exclusion keywords is rejected by that model's validator, whatever else
\* the title holds.
C3_ExclusionRejected ==
    (verdict # "pending" /\ HasExclusionKeyword) => verdict = "rejected"

\* C3: the CB125R validator accepts "honda cb125f", a title holding the
\* exclusion keyword cb125f of the CB125R profile.
C3_Witness ==
    /\ modelo_key = "cb125r"
    /\ moto_data.Titulo = <<"h", "o", "n", "d", "a", " ", "c", "b", "1", "2", "5", "f">>
    /\ verdict = "accepted"

\* C4: for each of the five profiles, a title holding an inclusion keyword
\* of the profile and none of its exclusion keywords, with no price and no
\* year outside the profile's range, is accepted by that model's validator.
C4_InclusionAccepted ==
    ( /\ verdict # "pending"
      /\ HasInclusionKeyword
      /\ ~HasExclusionKeyword
      /\ CarriedPrice = -1 \/ PriceInProfile
      /\ CarriedYear = -1 \/ YearInProfile )
    => verdict = "accepted"

\* C4: the PCX125 validator rejects the title "PCX 125", which holds the
\* inclusion keyword "pcx 125" and carries no price outside the range.
C4_Witness ==
    /\ modelo_key = "pcx125"
    /\ moto_data.Titulo = <<"P", "C", "X", " ", "1", "2", "5">>
    /\ moto_data.Anio = Anio2020
    /\ verdict = "rejected"

\* C5: for each profile and each candidate whose identity matches, a carried
\* price outside [precio_min, precio_max] is rejected, a carried price inside
\* the bounds is accepted on price grounds, and a missing or unparseable
\* price is not rejected on price grounds.
C5_PriceRange ==
    (verdict # "pending" /\ IdentityMatches) =>
        /\ (CarriedPrice # -1 /\ ~PriceInProfile) => verdict = "rejected"
        /\ (CarriedPrice # -1 /\ PriceInProfile /\ PassesWithoutPrice)
              => verdict = "accepted"
        /\ (CarriedPrice = -1 /\ PassesWithoutPrice) => verdict = "accepted"

\* C5: the CB125R validator accepts "Honda CB125R" at 4.800 euros, above the
\* profile's precio_max of 4500.
C5_Witness ==
    /\ modelo_key = "cb125r"
    /\ moto_data.Titulo = MODELOS_CONFIG["cb125r"].nombre
    /\ moto_data.Precio = <<"4", ".", "8", "0", "0", " ", "€">>
    /\ verdict = "accepted"

-----------------------------------------------------------------------------
(* The Cleaner (limpiador_integrado.py) *)

precio_minimo_global == 500
km_maximo_global == 80000

islas_spain ==
    {<<"c", "a", "n", "a", "r", "i", "a", "s">>,
     <<"t", "e", "n", "e", "r", "i", "f", "e">>,
     <<"g", "r", "a", "n", " ", "c", "a", "n", "a", "r", "i", "a">>,
     <<"f", "u", "e", "r", "t", "e", "v", "e", "n", "t", "u", "r", "a">>,
     <<"l", "a", "n", "z", "a", "r", "o", "t", "e">>,
     <<"l", "a", " ", "p", "a", "l", "m", "a">>,
     <<"l", "a", " ", "g", "o", "m", "e", "r", "a">>,
     <<"e", "l", " ", "h", "i", "e", "r", "r", "o">>,
     <<"b", "a", "l", "e", "a", "r", "e", "s">>,
     <<"m", "a", "l", "l", "o", "r", "c", "a">>,
     <<"m", "e", "n", "o", "r", "c", "a">>,
     <<"i", "b", "i", "z", "a">>,
     <<"f", "o", "r", "m", "e", "n", "t", "e", "r", "a">>,
     <<"p", "a", "l", "m", "a">>,
     <<"c", "e", "u", "t", "a">>,
     <<"m", "e", "l", "i", "l", "l", "a">>,
     <<"p", "a", "l", "m", "a", " ", "d", "e", " ", "m", "a", "l", "l", "o", "r", "c", "a">>}

comerciales_keywords ==
    {<<"c", "o", "n", "c", "e", "s", "i", "o", "n", "a", "r", "i", "o">>,
     <<"p", "r", "o", "f", "e", "s", "i", "o", "n", "a", "l">>,
     <<"e", "m", "p", "r", "e", "s", "a">>,
     <<"d", "e", "a", "l", "e", "r">>,
     <<"f", "i", "n", "a", "n", "c", "i", "a", "c", "i", "o", "n">>,
     <<"g", "a", "r", "a", "n", "t", "i", "a">>,
     <<"t", "a", "l", "l", "e", "r">>,
     <<"m", "o", "t", "o", "r">>,
     <<"a", "u", "t", "o", "m", "o", "c", "i", "o", "n">>,
     <<"v", "e", "h", "i", "c", "u", "l", "o", "s">>,
     <<"m", "u", "n", "d", "i", "m", "o", "t", "o">>,
     <<"s", ".", "l", ".">>,
     <<"s", "l">>,
     <<"s", ".", "a", ".">>,
     <<"s", "a">>,
     <<"s", "o", "c", "i", "e", "d", "a", "d">>,
     <<"c", "i", "a">>,
     <<"l", "t", "d">>}

\* the patterns _is_commercial searches in the lower-cased seller text
commercial_patterns ==
    {<<WB, Lit("S"), Rep({"."}, 0, 1), Lit("L"), Rep({"."}, 0, 1), WB>>,
     <<WB, Lit("S"), Rep({"."}, 0, 1), Lit("A"), Rep({"."}, 0, 1), WB>>,
     <<WB, Lit("L"), Lit("t"), Lit("d"), Rep({"."}, 0, 1), WB>>,
     <<WB, Rep(Digits, 2, 3), SepStar, Rep(Digits, 3, 3), SepStar,
       Rep(Digits, 3, 3), WB>>,
     <<Lit("@")>>}

\* LimpiadorIntegrado._determine_model_min_price
_determine_model_min_price(m) ==
    LET modelo_lower == Lower(MODELOS_CONFIG[m].nombre)
    IN  IF ContainsAny(modelo_lower, {<<"a", "g", "i", "l", "i", "t", "y">>, <<"p", "c", "x">>})
        THEN 600
        ELSE IF ContainsAny(modelo_lower,
                            {<<"z", "9", "0", "0">>, <<"m", "t", "-", "0", "7">>, <<"m", "t", "0", "7">>})
        THEN 2500
        ELSE IF ContainsAny(modelo_lower, {<<"1", "2", "5">>, <<"c", "b", "1", "2", "5", "r">>})
        THEN 1000
        ELSE IF MODELOS_CONFIG[m].precio_min >= precio_minimo_global
             THEN MODELOS_CONFIG[m].precio_min
             ELSE precio_minimo_global

\* the ceiling of step 5 when every profile is given the global one
km_maximo_Global(m) == km_maximo_global

\* stats['km_maximo'] = modelo_config.get('km_max', km_maximo_global)
km_maximo(m) ==
    IF "km_max" \in DOMAIN MODELOS_CONFIG[m]
    THEN MODELOS_CONFIG[m].km_max
    ELSE km_maximo_global

\* LimpiadorIntegrado._is_valid_price
_is_valid_price(price_text, min_price) ==
    IF Blank(price_text) THEN FALSE
    ELSE LET price_value == _extract_price_number(price_text)
         IN  IF price_value.raised THEN FALSE
             ELSE DecLeq(Dec(min_price), price_value.val)

\* LimpiadorIntegrado._is_commercial
_is_commercial(vendedor_text) ==
    IF Blank(vendedor_text) THEN FALSE
    ELSE \/ ContainsAny(Lower(vendedor_text), comerciales_keywords)
         \/ SearchAny(commercial_patterns, Lower(vendedor_text))

\* LimpiadorIntegrado._is_island_location
_is_island_location(ubicacion_text) ==
    IF Blank(ubicacion_text) THEN FALSE
    ELSE ContainsAny(Lower(ubicacion_text), islas_spain)

\* LimpiadorIntegrado._is_valid_km
_is_valid_km(km_text, max_km) ==
    IF Blank(km_text) THEN TRUE
    ELSE LET km_value == _extract_km_number(km_text)
         IN  IF km_value.raised THEN TRUE
             ELSE DecLeq(km_value.val, Dec(max_km))

\* passes every filter of every model
MotoA ==
    [Titulo |-> <<"A">>, URL |-> <<"u", "/", "1">>, Precio |-> <<"3", ".", "5", "0", "0", " ", "€">>,
     Vendedor |-> <<"P", "a", "r", "t", "i", "c", "u", "l", "a", "r">>, Ubicacion |-> <<"M", "a", "d", "r", "i", "d">>,
     Kilometraje |-> <<"1", "5", ".", "0", "0", "0", " ", "k", "m">>]

\* the URL of MotoA, below every price floor
MotoA2 ==
    [Titulo |-> <<"A", "2">>, URL |-> <<"u", "/", "1">>, Precio |-> <<"4", "0", "0", " ", "€">>,
     Vendedor |-> <<"P", "a", "r", "t", "i", "c", "u", "l", "a", "r">>, Ubicacion |-> <<"M", "a", "d", "r", "i", "d">>,
     Kilometraje |-> <<"1", "5", ".", "0", "0", "0", " ", "k", "m">>]

\* the URL of MotoA, mileage not given
MotoA3 ==
    [Titulo |-> <<"A", "3">>, URL |-> <<"u", "/", "1">>, Precio |-> <<"3", ".", "5", "0", "0", " ", "€">>,
     Vendedor |-> <<"P", "a", "r", "t", "i", "c", "u", "l", "a", "r">>, Ubicacion |-> <<"M", "a", "d", "r", "i", "d">>,
     Kilometraje |-> <<"N", "o", " ", "e", "s", "p", "e", "c", "i", "f", "i", "c", "a", "d", "o">>]

\* price and mileage pass for some models only
MotoB ==
    [Titulo |-> <<"B">>, URL |-> <<"u", "/", "2">>, Precio |-> <<"2", ".", "0", "0", "0", " ", "€">>,
     Vendedor |-> <<"P", "a", "r", "t", "i", "c", "u", "l", "a", "r">>, Ubicacion |-> <<"M", "a", "d", "r", "i", "d">>,
     Kilometraje |-> <<"3", "2", ".", "0", "0", "0", " ", "k", "m">>]

\* a commercial seller
MotoC ==
    [Titulo |-> <<"C">>, URL |-> <<"u", "/", "3">>, Precio |-> <<"3", ".", "5", "0", "0", " ", "€">>,
     Vendedor |-> <<"T", "a", "l", "l", "e", "r", " ", "P", "a", "c", "o">>, Ubicacion |-> <<"M", "a", "d", "r", "i", "d">>,
     Kilometraje |-> NaN]

\* an island
MotoD ==
    [Titulo |-> <<"D">>, URL |-> <<"u", "/", "4">>, Precio |-> <<"3", ".", "5", "0", "0", " ", "€">>,
     Vendedor |-> <<"P", "a", "r", "t", "i", "c", "u", "l", "a", "r">>, Ubicacion |-> <<"P", "a", "l", "m", "a", " ", "d", "e", " ", "M", "a", "l", "l", "o", "r", "c", "a">>,
     Kilometraje |-> <<"N", "o", " ", "e", "s", "p", "e", "c", "i", "f", "i", "c", "a", "d", "o">>]

\* the URL of MotoB, fails seller, island and mileage
MotoE ==
    [Titulo |-> <<"E">>, URL |-> <<"u", "/", "2">>, Precio |-> <<"3", ".", "5", "0", "0", " ", "€">>,
     Vendedor |-> <<"6", "1", "2", " ", "3", "4", "5", " ", "6", "7", "8">>, Ubicacion |-> <<"I", "b", "i", "z", "a">>,
     Kilometraje |-> <<"1", "2", "0", ".", "0", "0", "0", " ", "k", "m">>]

\* above every model's km_max, below km_maximo_global
MotoF ==
    [Titulo |-> <<"F">>, URL |-> <<"u", "/", "5">>, Precio |-> <<"3", ".", "5", "0", "0", " ", "€">>,
     Vendedor |-> <<"P", "a", "r", "t", "i", "c", "u", "l", "a", "r">>, Ubicacion |-> <<"M", "a", "d", "r", "i", "d">>,
     Kilometraje |-> <<"4", "5", ".", "0", "0", "0", " ", "k", "m">>]

\* mileage missing
MotoG ==
    [Titulo |-> <<"G">>, URL |-> <<"u", "/", "6">>, Precio |-> <<"3", ".", "5", "0", "0", " ", "€">>,
     Vendedor |-> <<"P", "a", "r", "t", "i", "c", "u", "l", "a", "r">>, Ubicacion |-> <<"M", "a", "d", "r", "i", "d">>,
     Kilometraje |-> NaN]

\* the rows the batches are drawn from
CleanerPool == {MotoA, MotoA2, MotoA3, MotoB, MotoC, MotoD, MotoE, MotoF, MotoG}

\* df['Precio'].apply(lambda x: self._is_valid_price(x, self.precio_minimo)):
\* the mask of step 2, by model and row
PrecioMask ==
    [m \in Models |-> [r \in CleanerPool |->
        _is_valid_price(r.Precio, _determine_model_min_price(m))]]

\* ~df['Vendedor'].apply(self._is_commercial): the mask of step 3
ComercialMask == [r \in CleanerPool |-> ~_is_commercial(r.Vendedor)]

\* ~df['Ubicación'].apply(self._is_island_location): the mask of step 4
IslaMask == [r \in CleanerPool |-> ~_is_island_location(r.Ubicacion)]

\* df['Kilometraje'].apply(lambda x: self._is_valid_km(x, km_max)):
\* the mask of step 5, by model and row
KmMask ==
    [m \in Models |-> [r \in CleanerPool |->
        _is_valid_km(r.Kilometraje, km_maximo(m))]]

RECURSIVE Rows(_, _)
\* the rows of df at the positions in keep, in their order: df[mask]
Rows(df, keep) ==
    IF df = <<>> THEN <<>>
    ELSE Rows(SubSeq(df, 1, Len(df) - 1), keep)
            \o (IF Len(df) \in keep THEN <<df[Len(df)]>> ELSE <<>>)

\* the positions of df whose URL stands at an earlier position too
Repeats(df) ==
    {i \in 1..Len(df) : \E j \in 1..(i - 1) : df[j].URL = df[i].URL}

\* a de-duplication that drops a row only when the row just before it has
\* its URL
DropDuplicates_Adjacent(df) ==
    Rows(df, {i \in 1..Len(df) : i = 1 \/ df[i - 1].URL # df[i].URL})

\* a de-duplication that drops one repeated row per call
DropDuplicates_FirstRepeatOnly(df) ==
    IF Repeats(df) = {} THEN df
    ELSE Rows(df, (1..Len(df)) \
                    {CHOOSE i \in Repeats(df) : \A j \in Repeats(df) : i <= j})

\* df.drop_duplicates(subset=['URL'], keep='first')
DropDuplicates(df) == Rows(df, (1..Len(df)) \ Repeats(df))

\* the five steps of clean_data, by the name of their counter in stats
Steps == {"duplicados", "precio", "comercial", "isla", "km"}

\* one step of clean_data on the batch it is handed
ApplyStep(step, df, m) ==
    CASE step = "duplicados" -> DropDuplicates(df)
      [] step = "precio" -> SelectSeq(df, LAMBDA r : PrecioMask[m][r])
      [] step = "comercial" -> SelectSeq(df, LAMBDA r : ComercialMask[r])
      [] step = "isla" -> SelectSeq(df, LAMBDA r : IslaMask[r])
      [] step = "km" -> SelectSeq(df, LAMBDA r : KmMask[m][r])

\* a step's outcome: the rows it leaves, and its counter antes - len(df)
\* added to the counters so far
Counted(step, antes, despues) ==
    [df |-> despues,
     eliminados |-> antes.eliminados @@ (step :> Len(antes.df) - Len(despues))]

\* one step run on the outcome of the steps before it
RunStep(step, antes, m) == Counted(step, antes, ApplyStep(step, antes.df, m))

RECURSIVE RunSteps(_, _, _)
\* the steps of order applied one after the other; a step handed an empty
\* batch removes nothing
RunSteps(order, df, m) ==
    IF order = <<>>
    THEN [df |-> df, eliminados |-> [step \in {} |-> 0]]
    ELSE RunStep(order[Len(order)],
                 RunSteps(SubSeq(order, 1, Len(order) - 1), df, m), m)

\* the steps with the price floor moved before the de-duplication
StepOrder_PriceFirst == <<"precio", "duplicados", "comercial", "isla", "km">>

\* the order in which clean_data applies its steps
StepOrder == <<"duplicados", "precio", "comercial", "isla", "km">>

\* LimpiadorIntegrado._create_empty_stats
_create_empty_stats(m) ==
    [inicial |-> 0, eliminados_precio |-> 0, eliminados_comercial |-> 0,
     eliminados_isla |-> 0, eliminados_km |-> 0, eliminados_duplicados |-> 0,
     total_eliminados |-> 0, final |-> 0,
     precio_minimo |-> _determine_model_min_price(m), km_maximo |-> 0]

\* what clean_data returns after its steps ran: the batch left and the
\* statistics
Cleaned(batch, run, m) ==
    [df |-> run.df,
     stats |->
        [inicial |-> Len(batch),
         eliminados_precio |-> run.eliminados["precio"],
         eliminados_comercial |-> run.eliminados["comercial"],
         eliminados_isla |-> run.eliminados["isla"],
         eliminados_km |-> run.eliminados["km"],
         eliminados_duplicados |-> run.eliminados["duplicados"],
         total_eliminados |-> Len(batch) - Len(run.df),
         final |-> Len(run.df),
         precio_minimo |-> _determine_model_min_price(m),
         km_maximo |-> km_maximo(m)]]

\* LimpiadorIntegrado.clean_data: the batch returned and its statistics
clean_data(batch, m) ==
    IF batch = <<>>
    THEN [df |-> batch, stats |-> _create_empty_stats(m)]
    ELSE Cleaned(batch, RunSteps(StepOrder, batch, m), m)

-----------------------------------------------------------------------------
(* Cleaner harness: a model and a batch are drawn, the batch is cleaned,
   then the result is cleaned again *)

\* most rows in a batch
MaxBatch == 3

Batches == UNION {[1..n -> CleanerPool] : n \in 0..MaxBatch}

\* every order of the five steps
StepOrders ==
    {o \in [1..5 -> Steps] : \A i, j \in 1..5 : o[i] = o[j] => i = j}

CleanerInit ==
    /\ modelo_key \in Models
    /\ df_motos \in Batches
    /\ phase = "loaded"
    /\ df_clean = <<>> /\ stats = <<>> /\ df_again = <<>>
    /\ ParserIdle
    /\ ValidatorIdle
    /\ ScorerIdle
    /\ PublisherIdle
    /\ RunnerIdle
    /\ ScraperIdle
    /\ AllModelsIdle
    /\ ImporterIdle

CleanData ==
    /\ phase = "loaded"
    /\ df_clean' = clean_data(df_motos, modelo_key).df
    /\ stats' = clean_data(df_motos, modelo_key).stats
    /\ phase' = "cleaned"
    /\ UNCHANGED <<modelo_key, df_motos, df_again, nonCleanerVars>>

CleanAgain ==
    /\ phase = "cleaned"
    /\ df_again' = clean_data(df_clean, modelo_key).df
    /\ phase' = "recleaned"
    /\ UNCHANGED <<modelo_key, df_motos, df_clean, stats, nonCleanerVars>>

CleanerNext ==
    \/ CleanData
    \/ CleanAgain

SpecCleaner == CleanerInit /\ [][CleanerNext]_vars

\* the rows sharing URLs, for the batches whose steps are tried in every order
OrderPool == {MotoA, MotoA2, MotoA3, MotoB, MotoE}

OrderBatches == UNION {[1..n -> OrderPool] : n \in 0..MaxBatch}

CleanerOrderInit ==
    /\ modelo_key \in Models
    /\ df_motos \in OrderBatches
    /\ phase = "loaded"
    /\ df_clean = <<>> /\ stats = <<>> /\ df_again = <<>>
    /\ ParserIdle
    /\ ValidatorIdle
    /\ ScorerIdle
    /\ PublisherIdle
    /\ RunnerIdle
    /\ ScraperIdle
    /\ AllModelsIdle
    /\ ImporterIdle

CleanerOrderNext == CleanData

SpecCleanerOrder == CleanerOrderInit /\ [][CleanerOrderNext]_vars

-----------------------------------------------------------------------------
(* Claims about the Cleaner *)

\* the rows of a batch, as a set
Range(df) == {df[i] : i \in 1..Len(df)}

\* C6: clean_data applied to what clean_data returned gives the same rows in
\* the same order.
C6_Idempotent == phase = "recleaned" => df_again = df_clean

\* C6: a batch that lost rows and kept two or more was cleaned a second time.
C6_Witness ==
    /\ phase = "recleaned"
    /\ Len(df_clean) >= 2
    /\ Len(df_clean) < Len(df_motos)
    /\ df_again = df_clean

\* the rows left when the five steps run in the order o
FinalSet(o) == Range(RunSteps(o, df_motos, modelo_key).df)

\* rows sharing a URL pass or fail each of the four filters alike
SameUrlAgree ==
    \A i, j \in 1..Len(df_motos) :
        LET a == df_motos[i]
            b == df_motos[j]
        IN  a.URL = b.URL =>
                /\ PrecioMask[modelo_key][a] = PrecioMask[modelo_key][b]
                /\ ComercialMask[a] = ComercialMask[b]
                /\ IslaMask[a] = IslaMask[b]
                /\ KmMask[modelo_key][a] = KmMask[modelo_key][b]

BeforeKm == RunSteps(SubSeq(StepOrder, 1, 4), df_motos, modelo_key).df

\* the mileage text holds a number
MileageKnown(r) == ~Blank(r.Kilometraje) /\ HasDigit(r.Kilometraje)

ParsedKm(r) == _extract_km_number(r.Kilometraje).val

C9_StatsAccount ==
    (phase = "cleaned" /\ df_motos # <<>>) =>
        LET all == 1..Len(df_motos)
            row(i) == df_motos[i]
            dup == Repeats(df_motos)
            precio == {i \in all \ dup : ~PrecioMask[modelo_key][row(i)]}
            comercial == {i \in all \ (dup \cup precio) : ~ComercialMask[row(i)]}
            isla == {i \in all \ (dup \cup precio \cup comercial) :
                        ~IslaMask[row(i)]}
            km == {i \in all \ (dup \cup precio \cup comercial \cup isla) :
                        ~KmMask[modelo_key][row(i)]}
        IN  /\ stats.inicial = Len(df_motos)
            /\ stats.inicial = stats.final + stats.eliminados_duplicados
                    + stats.eliminados_precio + stats.eliminados_comercial
                    + stats.eliminados_isla + stats.eliminados_km
            /\ stats.total_eliminados = stats.inicial - stats.final
            /\ stats.final = Len(df_clean)
            /\ stats.eliminados_duplicados = Cardinality(dup)
            /\ stats.eliminados_precio = Cardinality(precio)
            /\ stats.eliminados_comercial = Cardinality(comercial)
            /\ stats.eliminados_isla = Cardinality(isla)
            /\ stats.eliminados_km = Cardinality(km)

\* C9: MotoE repeats the URL of MotoB and also fails the seller, island and
\* mileage rules; it is counted once, as a duplicate.
C9_Witness ==
    /\ phase = "cleaned"
    /\ modelo_key = "agility125"
    /\ df_motos = <<MotoB, MotoE, MotoA2>>
    /\ stats.eliminados_duplicados = 1
    /\ stats.eliminados_precio = 1
    /\ stats.eliminados_comercial = 0
    /\ stats.final = 1

-----------------------------------------------------------------------------
(* The Deal Scorer (rentabilidad_calculator.py) *)

\* RENTABILIDAD_CONFIG["pesos"], in hundredths
pesos == [precio |-> 40, kilometraje |-> 35, anio |-> 25]

\* RENTABILIDAD_CONFIG["normalizacion"]
normalizacion ==
    [precio_max_score |-> 10, km_max_score |-> 10, anio_max_score |-> 10]

RECURSIVE GCD(_, _)
GCD(a, b) == IF b = 0 THEN a ELSE GCD(b, a % b)

\* a float score, kept as the exact fraction n/d in lowest terms; nan marks NaN
Rat(n, d) == [nan |-> FALSE, n |-> n \div GCD(n, d), d |-> d \div GCD(n, d)]

NaNScore == [nan |-> TRUE, n |-> 0, d |-> 1]

\* a + b, NaN when either is
RatAdd(a, b) ==
    IF a.nan \/ b.nan THEN NaNScore ELSE Rat(a.n * b.d + b.n * a.d, a.d * b.d)

\* score * weight, the weight in hundredths
Weighted(a, peso) == IF a.nan THEN NaNScore ELSE Rat(peso * a.n, 100 * a.d)

\* a < b and a >= b as floats compare: False when either is NaN
RatLess(a, b) == ~a.nan /\ ~b.nan /\ a.n * b.d < b.n * a.d

RatGeq(a, b) == ~a.nan /\ ~b.nan /\ a.n * b.d >= b.n * a.d

\* scores.clip(0, max_score), on a score that is not negative
Clip(a, max_score) == IF RatLess(Rat(max_score, 1), a) THEN Rat(max_score, 1) ELSE a

\* the cell texts of the frames scored
ScorerPrecios == {<<"2", ".", "0", "0", "0", " ", "€">>, <<"3", ".", "0", "0", "0", " ", "€">>, <<"4", ".", "0", "0", "0", " ", "€">>,
                  NoEspecificado}

ScorerKms == {<<"5", ".", "0", "0", "0", " ", "k", "m">>, <<"1", "0", ".", "0", "0", "0", " ", "k", "m">>, <<"1", "5", ".", "0", "0", "0", " ", "k", "m">>,
              NoEspecificado}

ScorerAnios == {<<"2", "0", "1", "8">>, <<"2", "0", "2", "0">>, <<"2", "0", "2", "2">>, NoEspecificado}

\* df['Precio'].apply(self._extract_price), by cell
Precio_Numerico == [t \in ScorerPrecios |-> _extract_price(t)]

\* df['Kilometraje'].apply(self._extract_km), by cell
KM_Numerico == [t \in ScorerKms |-> _extract_km(t)]

\* df['Año'].apply(self._extract_year), by cell
Anio_Numerico == [t \in ScorerAnios |-> _extract_year(t)]

\* one of the three apply calls raises
ApplyRaises(df) ==
    \E i \in 1..Len(df) :
        \/ Precio_Numerico[df[i].Precio].raised
        \/ KM_Numerico[df[i].Kilometraje].raised
        \/ Anio_Numerico[df[i].Anio].raised

\* (Precio_Numerico > 0) & (KM_Numerico >= 0) & (Año_Numerico > 0)
IsValid(row) ==
    /\ ~DecLeq(Precio_Numerico[row.Precio].val, Zero)
    /\ DecLeq(Zero, KM_Numerico[row.Kilometraje].val)
    /\ ~DecLeq(Anio_Numerico[row.Anio].val, Zero)

IsNotValid(row) == ~IsValid(row)

\* the largest exponent among decimal values
MaxExp(values) ==
    IF values = <<>> THEN 0
    ELSE CHOOSE e \in {values[i].exp : i \in 1..Len(values)} :
            \A i \in 1..Len(values) : values[i].exp <= e

\* a numeric column as integers on one scale (the scores are ratios of
\* differences, which the scale leaves alone)
Scaled(values, e) ==
    [i \in 1..Len(values) |-> values[i].num * Pow10(e - values[i].exp)]

PrecioColumn(df) ==
    Scaled([i \in 1..Len(df) |-> Precio_Numerico[df[i].Precio].val],
           MaxExp([i \in 1..Len(df) |-> Precio_Numerico[df[i].Precio].val]))

KMColumn(df) ==
    Scaled([i \in 1..Len(df) |-> KM_Numerico[df[i].Kilometraje].val],
           MaxExp([i \in 1..Len(df) |-> KM_Numerico[df[i].Kilometraje].val]))

AnioColumn(df) ==
    Scaled([i \in 1..Len(df) |-> Anio_Numerico[df[i].Anio].val],
           MaxExp([i \in 1..Len(df) |-> Anio_Numerico[df[i].Anio].val]))

\* the index labels of a frame
Labels(df) == [i \in 1..Len(df) |-> df[i].index]

SeriesMax(values) ==
    CHOOSE v \in {values[i] : i \in 1..Len(values)} :
        \A i \in 1..Len(values) : values[i] <= v

SeriesMin(values) ==
    CHOOSE v \in {values[i] : i \in 1..Len(values)} :
        \A i \in 1..Len(values) : v <= values[i]

\* pd.Series([max_score] * len(values)) assigned as a column of the frame:
\* the new Series is labelled 0..len-1 and is aligned on the frame's labels,
\* so a row whose label it lacks gets NaN
ConstantColumn(labels, max_score) ==
    [i \in 1..Len(labels) |->
        IF labels[i] \in 0..(Len(labels) - 1) THEN Rat(max_score, 1) ELSE NaNScore]

\* max_score * (max - values) / (max - min), clipped
InverseScores(values, hi, lo, max_score) ==
    [i \in 1..Len(values) |->
        Clip(Rat(max_score * (hi - values[i]), hi - lo), max_score)]

\* max_score * (values - min) / (max - min), clipped
DirectScores(values, hi, lo, max_score) ==
    [i \in 1..Len(values) |->
        Clip(Rat(max_score * (values[i] - lo), hi - lo), max_score)]

\* RentabilidadCalculator._calculate_price_score, as the column Score_Precio
_calculate_price_score(labels, precios) ==
    IF precios = <<>> \/ SeriesMax(precios) = SeriesMin(precios)
    THEN ConstantColumn(labels, normalizacion.precio_max_score)
    ELSE InverseScores(precios, SeriesMax(precios), SeriesMin(precios),
                       normalizacion.precio_max_score)

\* RentabilidadCalculator._calculate_km_score, as the column Score_KM
_calculate_km_score(labels, kms) ==
    IF kms = <<>> \/ SeriesMax(kms) = SeriesMin(kms)
    THEN ConstantColumn(labels, normalizacion.km_max_score)
    ELSE InverseScores(kms, SeriesMax(kms), SeriesMin(kms),
                       normalizacion.km_max_score)

\* RentabilidadCalculator._calculate_year_score, as the column Score_Año
_calculate_year_score(labels, anios) ==
    IF anios = <<>> \/ SeriesMax(anios) = SeriesMin(anios)
    THEN ConstantColumn(labels, normalizacion.anio_max_score)
    ELSE DirectScores(anios, SeriesMax(anios), SeriesMin(anios),
                      normalizacion.anio_max_score)

\* Score_Precio * pesos['precio'] + Score_KM * pesos['kilometraje']
\*   + Score_Año * pesos['año']
WeightedSum(score_precio, score_km, score_anio) ==
    [i \in 1..Len(score_precio) |->
        RatAdd(RatAdd(Weighted(score_precio[i], pesos.precio),
                      Weighted(score_km[i], pesos.kilometraje)),
               Weighted(score_anio[i], pesos.anio))]

\* the column Rentabilidad_Score of df_valido
Rentabilidad_Score(valido) ==
    WeightedSum(_calculate_price_score(Labels(valido), PrecioColumn(valido)),
                _calculate_km_score(Labels(valido), KMColumn(valido)),
                _calculate_year_score(Labels(valido), AnioColumn(valido)))

\* sum(self.normalizacion.values())
MaxScoreSum ==
    normalizacion.precio_max_score + normalizacion.km_max_score
        + normalizacion.anio_max_score

\* porcentaje >= umbral, porcentaje = (score / max_score) * 100; False on NaN
PorcentajeGeq(score, umbral) ==
    ~score.nan /\ score.n * 100 >= umbral * MaxScoreSum * score.d

\* RentabilidadCalculator._get_rentabilidad_category
_get_rentabilidad_category(score) ==
    IF PorcentajeGeq(score, 80) THEN " Excelente"
    ELSE IF PorcentajeGeq(score, 65) THEN " Muy Buena"
    ELSE IF PorcentajeGeq(score, 50) THEN " Buena"
    ELSE IF PorcentajeGeq(score, 35) THEN " Regular"
    ELSE IF PorcentajeGeq(score, 20) THEN " Baja"
    ELSE " Muy Baja"

\* sort_values('Rentabilidad_Score', ascending=False) must put a before b:
\* a is larger, or b is NaN and a is not (NaN goes last)
MustPrecede(a, b) == RatLess(b, a) \/ (~a.nan /\ b.nan)

\* the orders sort_values may give the rows: the sort is quicksort, which
\* promises no order among equal scores
SortOrders(scores) ==
    {o \in [1..Len(scores) -> 1..Len(scores)] :
        /\ \A i, j \in 1..Len(scores) : o[i] = o[j] => i = j
        /\ \A i, j \in 1..Len(scores) :
              i < j => ~MustPrecede(scores[o[j]], scores[o[i]])}

\* a row of df_ordenado: score, category and ranking added
ScoredRow(row, score, ranking) ==
    [index |-> row.index,
     Rentabilidad_Score |-> score,
     Categoria_Rentabilidad |-> _get_rentabilidad_category(score),
     Ranking_Rentabilidad |-> ranking,
     Titulo |-> row.Titulo, Precio |-> row.Precio,
     Kilometraje |-> row.Kilometraje, Anio |-> row.Anio]

\* a row of df_sin_datos
SinDatosRow(row, ranking) ==
    [index |-> row.index,
     Rentabilidad_Score |-> Rat(0, 1),
     Categoria_Rentabilidad |-> "Sin datos",
     Ranking_Rentabilidad |-> ranking,
     Titulo |-> row.Titulo, Precio |-> row.Precio,
     Kilometraje |-> row.Kilometraje, Anio |-> row.Anio]

\* df_valido in the order o, ranked from 1
Ordenado(valido, scores, o) ==
    [k \in 1..Len(valido) |-> ScoredRow(valido[o[k]], scores[o[k]], k)]

\* the rows outside df_valido, in their order, all ranked len(df_ordenado) + 1
SinDatos(df, ranking) ==
    [k \in 1..Len(SelectSeq(df, IsNotValid)) |->
        SinDatosRow(SelectSeq(df, IsNotValid)[k], ranking)]

\* pd.concat([df_ordenado, df_sin_datos], ignore_index=True) when there are
\* rows without data, df_ordenado with its labels when there are none
Concat(df_ordenado, df_sin_datos) ==
    IF df_sin_datos = <<>> THEN df_ordenado
    ELSE [k \in 1..(Len(df_ordenado) + Len(df_sin_datos)) |->
            [(df_ordenado \o df_sin_datos)[k] EXCEPT !.index = k - 1]]

\* the frames the sort may leave, for the valid rows and their scores
Ranked(df, valido, scores) ==
    {Concat(Ordenado(valido, scores, o), SinDatos(df, Len(valido) + 1)) :
        o \in SortOrders(scores)}

\* RentabilidadCalculator.calculate_rentabilidad: the frames it may return
calculate_rentabilidad(df) ==
    IF df = <<>> THEN {df}
    ELSE IF ApplyRaises(df) THEN {df}
    ELSE IF SelectSeq(df, IsValid) = <<>> THEN {df}
    ELSE Ranked(df, SelectSeq(df, IsValid),
                Rentabilidad_Score(SelectSeq(df, IsValid)))

\* a row of df_valido once the four score columns are assigned
WithScores(row, score_precio, score_km, score_anio, total) ==
    [index |-> row.index,
     Score_Precio |-> score_precio, Score_KM |-> score_km,
     Score_Anio |-> score_anio, Rentabilidad_Score |-> total,
     Titulo |-> row.Titulo, Precio |-> row.Precio,
     Kilometraje |-> row.Kilometraje, Anio |-> row.Anio]

ScoreColumns(df_valid, score_precio, score_km, score_anio, total) ==
    [i \in 1..Len(df_valid) |->
        WithScores(df_valid[i], score_precio[i], score_km[i], score_anio[i],
                   total[i])]

\* df_valido as calculate_rentabilidad holds it before the sort: the valid
\* rows in their order with Score_Precio, Score_KM, Score_Año and
\* Rentabilidad_Score; no row when the call returns before scoring
ScoredRows(df) ==
    IF df = <<>> \/ ApplyRaises(df) THEN <<>>
    ELSE ScoreColumns(SelectSeq(df, IsValid),
            _calculate_price_score(Labels(SelectSeq(df, IsValid)),
                                   PrecioColumn(SelectSeq(df, IsValid))),
            _calculate_km_score(Labels(SelectSeq(df, IsValid)),
                                KMColumn(SelectSeq(df, IsValid))),
            _calculate_year_score(Labels(SelectSeq(df, IsValid)),
                                  AnioColumn(SelectSeq(df, IsValid))),
            Rentabilidad_Score(SelectSeq(df, IsValid)))

-----------------------------------------------------------------------------
(* Scorer harness: a frame is drawn, with the index labels the Cleaner left
   it, and scored *)

\* cheapest, least used
Moto1 ==
    [Titulo |-> <<"M", "1">>, Precio |-> <<"2", ".", "0", "0", "0", " ", "€">>,
     Kilometraje |-> <<"5", ".", "0", "0", "0", " ", "k", "m">>, Anio |-> <<"2", "0", "2", "0">>]

\* the year of Moto1, dearer and more used
Moto2 ==
    [Titulo |-> <<"M", "2">>, Precio |-> <<"3", ".", "0", "0", "0", " ", "€">>,
     Kilometraje |-> <<"1", "0", ".", "0", "0", "0", " ", "k", "m">>, Anio |-> <<"2", "0", "2", "0">>]

\* dearest, most used, newest
Moto3 ==
    [Titulo |-> <<"M", "3">>, Precio |-> <<"4", ".", "0", "0", "0", " ", "€">>,
     Kilometraje |-> <<"1", "5", ".", "0", "0", "0", " ", "k", "m">>, Anio |-> <<"2", "0", "2", "2">>]

\* oldest
Moto4 ==
    [Titulo |-> <<"M", "4">>, Precio |-> <<"3", ".", "0", "0", "0", " ", "€">>,
     Kilometraje |-> <<"5", ".", "0", "0", "0", " ", "k", "m">>, Anio |-> <<"2", "0", "1", "8">>]

\* no price
Moto5 ==
    [Titulo |-> <<"M", "5">>, Precio |-> <<"N", "o", " ", "e", "s", "p", "e", "c", "i", "f", "i", "c", "a", "d", "o">>,
     Kilometraje |-> <<"1", "0", ".", "0", "0", "0", " ", "k", "m">>, Anio |-> <<"2", "0", "2", "0">>]

\* no mileage and no year
Moto6 ==
    [Titulo |-> <<"M", "6">>, Precio |-> <<"2", ".", "0", "0", "0", " ", "€">>,
     Kilometraje |-> <<"N", "o", " ", "e", "s", "p", "e", "c", "i", "f", "i", "c", "a", "d", "o">>, Anio |-> <<"N", "o", " ", "e", "s", "p", "e", "c", "i", "f", "i", "c", "a", "d", "o">>]

ScorerPool == {Moto1, Moto2, Moto3, Moto4, Moto5, Moto6}

\* a listing as a row of the frame, under an index label
Row(moto, label) ==
    [index |-> label, Titulo |-> moto.Titulo, Precio |-> moto.Precio,
     Kilometraje |-> moto.Kilometraje, Anio |-> moto.Anio]

\* the frame of the listings in motos, labelled 0..Len(motos) with the label
\* gap left out (the row the Cleaner dropped); gap = Len(motos) leaves the
\* labels 0..Len(motos)-1
Frame(motos, gap) ==
    [i \in 1..Len(motos) |-> Row(motos[i], IF i - 1 < gap THEN i - 1 ELSE i)]

ScorerFrames ==
    {Frame(motos, gap) :
        motos \in UNION {[1..n -> ScorerPool] : n \in 0..MaxBatch},
        gap \in 0..MaxBatch}

ScorerInit ==
    /\ modelo_key \in Models
    /\ df_motos \in ScorerFrames
    /\ phase = "loaded"
    /\ df_final = <<>> /\ df_valido = <<>>
    /\ PublisherIdle
    /\ RunnerIdle
    /\ ScraperIdle
    /\ AllModelsIdle
    /\ ImporterIdle
    /\ df_clean = <<>> /\ stats = <<>> /\ df_again = <<>>
    /\ ParserIdle
    /\ ValidatorIdle

CalculateRentabilidad ==
    /\ phase = "loaded"
    /\ df_final' \in calculate_rentabilidad(df_motos)
    /\ df_valido' = ScoredRows(df_motos)
    /\ phase' = "scored"
    /\ UNCHANGED <<modelo_key, df_motos, nonScorerVars>>

ScorerNext == CalculateRentabilidad

SpecScorer == ScorerInit /\ [][ScorerNext]_vars

-----------------------------------------------------------------------------
(* Claims about the Deal Scorer *)

\* the listing a row of a frame carries
Listing(row) ==
    [Titulo |-> row.Titulo, Precio |-> row.Precio,
     Kilometraje |-> row.Kilometraje, Anio |-> row.Anio]

\* how many rows of a frame carry the listing
Copies(df, moto) == Cardinality({i \in 1..Len(df) : Listing(df[i]) = moto})

\* the row carries a composite score (the frame is not the input handed back)
HasScore(row) == "Rentabilidad_Score" \in DOMAIN row

\* C10: in the Scorer's output the records with usable numeric data appear in
\* non-increasing order of composite score (each one's score is at least the
\* score of every one after it), every record without usable numeric data
\* comes after all of them, and the output holds each input record exactly
\* as many times as the input does.
C10_RankedOrder ==
    phase = "scored" =>
        /\ \A i, j \in 1..Len(df_final) :
              (i < j /\ IsValid(df_final[i]) /\ IsValid(df_final[j])
                     /\ HasScore(df_final[i]) /\ HasScore(df_final[j]))
                  => RatGeq(df_final[i].Rentabilidad_Score,
                            df_final[j].Rentabilidad_Score)
        /\ \A i, j \in 1..Len(df_final) :
              i < j => ~(IsNotValid(df_final[i]) /\ IsValid(df_final[j]))
        /\ Len(df_final) = Len(df_motos)
        /\ \A moto \in ScorerPool : Copies(df_final, moto) = Copies(df_motos, moto)

\* a listing without price leads the frame, so the two valid rows are
\* labelled 1 and 2; both are of 2020, Score_Año is a constant Series labelled
\* 0 and 1, and the row labelled 2 (cheaper and less used) gets NaN and is
\* ranked after the row it beats on price and mileage
C10_Witness ==
    /\ phase = "scored"
    /\ df_motos = Frame(<<Moto5, Moto2, Moto1>>, 3)
    /\ Len(df_final) = 3
    /\ Listing(df_final[1]) = Moto2
    /\ df_final[1].Rentabilidad_Score = Rat(5, 2)
    /\ Listing(df_final[2]) = Moto1
    /\ df_final[2].Rentabilidad_Score = NaNScore
    /\ df_final[2].Ranking_Rentabilidad = 2
    /\ df_final[3].Categoria_Rentabilidad = "Sin datos"

-----------------------------------------------------------------------------
(* Scoring a frame twice: frames that hold listings of equal figures *)

\* the figures of Moto1 under another title
Moto7 ==
    [Titulo |-> <<"M", "7">>, Precio |-> <<"2", ".", "0", "0", "0", " ", "€">>,
     Kilometraje |-> <<"5", ".", "0", "0", "0", " ", "k", "m">>, Anio |-> <<"2", "0", "2", "0">>]

TiePool == {Moto1, Moto7, Moto2, Moto5}

TieFrames ==
    {Frame(motos, gap) :
        motos \in UNION {[1..n -> TiePool] : n \in 0..MaxBatch},
        gap \in 0..MaxBatch}

ScorerTwiceInit ==
    /\ modelo_key \in Models
    /\ df_motos \in TieFrames
    /\ phase = "loaded"
    /\ df_final = <<>> /\ df_valido = <<>>
    /\ PublisherIdle
    /\ RunnerIdle
    /\ ScraperIdle
    /\ AllModelsIdle
    /\ ImporterIdle
    /\ df_clean = <<>> /\ stats = <<>> /\ df_again = <<>>
    /\ ParserIdle
    /\ ValidatorIdle

\* a second call on the same frame: it sorts the same scores with the same
\* sort routine, so among the orders the sort may give it gives the one the
\* first call gave
CalculateAgain ==
    /\ phase = "scored"
    /\ df_again' \in {df \in calculate_rentabilidad(df_motos) : df = df_final}
    /\ phase' = "rescored"
    /\ UNCHANGED <<modelo_key, df_motos, df_final, df_valido, df_clean, stats,
                   parserVars, validatorVars, publisherVars, runnerVars,
      scraperVars, allModelsVars, importerVars>>

ScorerTwiceNext == CalculateRentabilidad \/ CalculateAgain

SpecScorerTwice == ScorerTwiceInit /\ [][ScorerTwiceNext]_vars

\* the first and the last place a listing has in a frame
FirstPlace(df, moto) ==
    CHOOSE i \in 1..Len(df) :
        Listing(df[i]) = moto /\ \A k \in 1..(i - 1) : Listing(df[k]) # moto

LastPlace(df, moto) ==
    CHOOSE i \in 1..Len(df) :
        Listing(df[i]) = moto /\ \A k \in (i + 1)..Len(df) : Listing(df[k]) # moto

\* two rows of the output carry the same composite score
SameScore(a, b) ==
    /\ HasScore(a) /\ HasScore(b)
    /\ IsValid(a) /\ IsValid(b)
    /\ ~a.Rentabilidad_Score.nan /\ ~b.Rentabilidad_Score.nan
    /\ a.Rentabilidad_Score = b.Rentabilidad_Score

-----------------------------------------------------------------------------
(* The end-to-end scenario: listings that differ in price alone *)

\* 3.000 € at the mileage and year of Moto1
Moto8 ==
    [Titulo |-> <<"M", "8">>, Precio |-> <<"3", ".", "0", "0", "0", " ", "€">>,
     Kilometraje |-> <<"5", ".", "0", "0", "0", " ", "k", "m">>, Anio |-> <<"2", "0", "2", "0">>]

\* 4.000 € at the mileage and year of Moto1
Moto9 ==
    [Titulo |-> <<"M", "9">>, Precio |-> <<"4", ".", "0", "0", "0", " ", "€">>,
     Kilometraje |-> <<"5", ".", "0", "0", "0", " ", "k", "m">>, Anio |-> <<"2", "0", "2", "0">>]

ScenarioPool == {Moto1, Moto8, Moto9, Moto2}

ScenarioFrames ==
    {Frame(motos, gap) :
        motos \in UNION {[1..n -> ScenarioPool] : n \in 0..MaxBatch},
        gap \in 0..MaxBatch}

ScorerScenarioInit ==
    /\ modelo_key \in Models
    /\ df_motos \in ScenarioFrames
    /\ phase = "loaded"
    /\ df_final = <<>> /\ df_valido = <<>>
    /\ PublisherIdle
    /\ RunnerIdle
    /\ ScraperIdle
    /\ AllModelsIdle
    /\ ImporterIdle
    /\ df_clean = <<>> /\ stats = <<>> /\ df_again = <<>>
    /\ ParserIdle
    /\ ValidatorIdle

ScorerScenarioNext == CalculateRentabilidad

SpecScorerScenario == ScorerScenarioInit /\ [][ScorerScenarioNext]_vars

\* every row of the frame has the mileage and the year of every other
SameMileageAndYear(df) ==
    \A i, j \in 1..Len(df) :
        /\ KM_Numerico[df[i].Kilometraje].val = KM_Numerico[df[j].Kilometraje].val
        /\ Anio_Numerico[df[i].Anio].val = Anio_Numerico[df[j].Anio].val

\* C12: when every record of the batch has the same mileage and the same
\* year, the output is in ascending order of price: no record stands before
\* a cheaper one, so the lowest-priced is first and the highest-priced last.
C12_RankedByPrice ==
    (phase = "scored" /\ SameMileageAndYear(df_motos)) =>
        \A i, j \in 1..Len(df_final) :
            i < j => DecLeq(Precio_Numerico[df_final[i].Precio].val,
                            Precio_Numerico[df_final[j].Precio].val)

\* the frame is labelled 1 and 2 (the Cleaner dropped the row labelled 0):
\* Score_KM and Score_Año are constant Series labelled 0 and 1, the cheaper
\* row, labelled 2, gets NaN for both and is ranked after the dearer one
C12_Witness ==
    /\ phase = "scored"
    /\ df_motos = Frame(<<Moto8, Moto1>>, 0)
    /\ SameMileageAndYear(df_motos)
    /\ Len(df_final) = 2
    /\ Listing(df_final[1]) = Moto8
    /\ df_final[1].Rentabilidad_Score = Rat(6, 1)
    /\ Listing(df_final[2]) = Moto1
    /\ df_final[2].Rentabilidad_Score = NaNScore

-----------------------------------------------------------------------------
(* Claims about the sub-scores *)

\* all values of a column are equal
AllEqual(values) == \A i, j \in 1..Len(values) : values[i] = values[j]

\* the sub-score the specification gives the i-th value of a column scored
\* inversely (price, mileage): 5 when all values are equal, else
\* 10 * (max - x) / (max - min)
NeutralOrInverse(values, i) ==
    IF AllEqual(values) THEN Rat(5, 1)
    ELSE Rat(10 * (SeriesMax(values) - values[i]),
             SeriesMax(values) - SeriesMin(values))

\* the same for a column scored directly (year): 10 * (x - min) / (max - min)
NeutralOrDirect(values, i) ==
    IF AllEqual(values) THEN Rat(5, 1)
    ELSE Rat(10 * (values[i] - SeriesMin(values)),
             SeriesMax(values) - SeriesMin(values))

\* C13: when all scored records have the same value for a field every one of
\* them gets the neutral sub-score 5.0 for it, whatever index labels the
\* batch carries; otherwise the price and mileage sub-scores are
\* 10*(max-x)/(max-min) and the year sub-score is 10*(x-min)/(max-min).
C13_SubScores ==
    phase = "scored" =>
        \A i \in 1..Len(df_valido) :
            /\ df_valido[i].Score_Precio
                  = NeutralOrInverse(PrecioColumn(df_valido), i)
            /\ df_valido[i].Score_KM = NeutralOrInverse(KMColumn(df_valido), i)
            /\ df_valido[i].Score_Anio = NeutralOrDirect(AnioColumn(df_valido), i)

\* two rows of 2020 labelled 1 and 2: the year sub-score is 10 for the first
\* and NaN for the second, 5.0 for neither; price and mileage differ and are
\* scored by the formula
C13_Witness ==
    /\ phase = "scored"
    /\ df_motos = Frame(<<Moto2, Moto1>>, 0)
    /\ Len(df_valido) = 2
    /\ df_valido[1].Score_Anio = Rat(10, 1)
    /\ df_valido[2].Score_Anio = NaNScore
    /\ df_valido[1].Score_Precio = Rat(0, 1)
    /\ df_valido[2].Score_Precio = Rat(10, 1)
    /\ df_valido[2].Score_KM = Rat(10, 1)

\* a score is a number within [0, 10]
InScoreRange(a) == RatGeq(a, Rat(0, 1)) /\ RatGeq(Rat(10, 1), a)

\* a == b as floats compare: False when either is NaN
RatEq(a, b) == ~a.nan /\ ~b.nan /\ a = b

\* C14: for every scored record the composite score equals
\* 0.40*price_score + 0.35*mileage_score + 0.25*year_score, each sub-score
\* lies in [0, 10], and the composite lies in [0, 10].
C14_CompositeInRange ==
    phase = "scored" =>
        \A i \in 1..Len(df_valido) :
            /\ RatEq(df_valido[i].Rentabilidad_Score,
                     RatAdd(RatAdd(Weighted(df_valido[i].Score_Precio, 40),
                                   Weighted(df_valido[i].Score_KM, 35)),
                            Weighted(df_valido[i].Score_Anio, 25)))
            /\ InScoreRange(df_valido[i].Score_Precio)
            /\ InScoreRange(df_valido[i].Score_KM)
            /\ InScoreRange(df_valido[i].Score_Anio)
            /\ InScoreRange(df_valido[i].Rentabilidad_Score)

\* two rows of 5.000 km labelled 0 and 2: the second one's mileage sub-score
\* is NaN, and so is its composite, while the first scores 0.35 * 10
C14_Witness ==
    /\ phase = "scored"
    /\ df_motos = Frame(<<Moto4, Moto1>>, 1)
    /\ Len(df_valido) = 2
    /\ df_valido[1].Rentabilidad_Score = Rat(7, 2)
    /\ df_valido[2].Score_Precio = Rat(10, 1)
    /\ df_valido[2].Score_Anio = Rat(10, 1)
    /\ df_valido[2].Score_KM = NaNScore
    /\ df_valido[2].Rentabilidad_Score = NaNScore

-----------------------------------------------------------------------------
(* From the Scorer to the worksheet (main_runner.py, google_sheets_manager.py) *)

\* MainRunner._score_to_category_fast
_score_to_category_fast(score) ==
    IF score.nan THEN "No calculada"
    ELSE IF RatGeq(score, Rat(8, 1)) THEN "Excelente"
    ELSE IF RatGeq(score, Rat(6, 1)) THEN "Buena"
    ELSE IF RatGeq(score, Rat(4, 1)) THEN "Regular"
    ELSE "Baja"

\* GoogleSheetsManager._score_to_simple_category
_score_to_simple_category(score) ==
    IF score.nan THEN "No calculada"
    ELSE IF RatGeq(score, Rat(8, 1)) THEN "Excelente"
    ELSE IF RatGeq(score, Rat(6, 1)) THEN "Buena"
    ELSE IF RatGeq(score, Rat(4, 1)) THEN "Regular"
    ELSE "Baja"

\* the frame has the column Rentabilidad_Score
HasScoreColumn(df) == df # <<>> /\ "Rentabilidad_Score" \in DOMAIN df[1]

\* the frame with the column Rentabilidad set row by row
WithRentabilidad(df, rentabilidad) ==
    [k \in 1..Len(df) |->
        [c \in DOMAIN df[k] \cup {"Rentabilidad"} |->
            IF c = "Rentabilidad" THEN rentabilidad[k] ELSE df[k][c]]]

\* MainRunner._calculate_rentabilidad_fast, on the frame the Scorer returned
_calculate_rentabilidad_fast(df_with_score) ==
    IF HasScoreColumn(df_with_score)
    THEN WithRentabilidad(df_with_score,
            [k \in 1..Len(df_with_score) |->
                _score_to_category_fast(df_with_score[k].Rentabilidad_Score)])
    ELSE WithRentabilidad(df_with_score,
            [k \in 1..Len(df_with_score) |-> "No calculada"])

\* columns_to_remove of _format_dataframe_for_sheets
columns_to_remove ==
    {"Rentabilidad_Score", "Ranking_Rentabilidad", "Descripcion",
     "Categoria_Rentabilidad"}

\* df_clean.drop(columns=[col]) for each column to remove
DropColumns(df) ==
    [k \in 1..Len(df) |->
        [c \in (DOMAIN df[k]) \ columns_to_remove |-> df[k][c]]]

\* GoogleSheetsManager._format_dataframe_for_sheets
_format_dataframe_for_sheets(df) ==
    IF HasScoreColumn(df)
    THEN WithRentabilidad(DropColumns(df),
            [k \in 1..Len(df) |->
                _score_to_simple_category(df[k].Rentabilidad_Score)])
    ELSE WithRentabilidad(DropColumns(df), [k \in 1..Len(df) |-> "No calculada"])

\* df_formatted.values.tolist(): the cells of the rows, the index left out
ValuesToList(df) ==
    [k \in 1..Len(df) |-> [c \in (DOMAIN df[k]) \ {"index"} |-> df[k][c]]]

\* GoogleSheetsManager.upload_modelo_data: the rows worksheet.update receives
upload_modelo_data(df) ==
    ValuesToList(_format_dataframe_for_sheets(df))

\* steps 3 and 5 of MainRunner.run after the Scorer has returned; run leaves
\* before step 3 when the cleaned frame is empty
UploadToSheets ==
    /\ phase = "scored"
    /\ df_motos # <<>>
    /\ df_sheet' = upload_modelo_data(_calculate_rentabilidad_fast(df_final))
    /\ phase' = "published"
    /\ UNCHANGED <<modelo_key, df_motos, df_final, df_valido, df_clean, stats,
                   df_again, parserVars, validatorVars, runnerVars,
                   scraperVars, allModelsVars, importerVars>>

PublisherNext == CalculateRentabilidad \/ UploadToSheets

SpecPublisher == ScorerInit /\ [][PublisherNext]_vars

\* the category the specification gives a composite score: thresholds on
\* composite / 10 * 100
ClaimedCategory(score) ==
    IF RatGeq(score, Rat(85, 10)) THEN "Excellent"
    ELSE IF RatGeq(score, Rat(70, 10)) THEN "VeryGood"
    ELSE IF RatGeq(score, Rat(55, 10)) THEN "Good"
    ELSE IF RatGeq(score, Rat(40, 10)) THEN "Fair"
    ELSE IF RatGeq(score, Rat(25, 10)) THEN "Low"
    ELSE "VeryLow"

\* the names the Scorer gives the six categories
ScorerCategoryName ==
    [Excellent |-> " Excelente", VeryGood |-> " Muy Buena", Good |-> " Buena",
     Fair |-> " Regular", Low |-> " Baja", VeryLow |-> " Muy Baja"]

\* the names they have in the worksheet
SheetCategoryName ==
    [Excellent |-> "Excelente", VeryGood |-> "Muy Buena", Good |-> "Buena",
     Fair |-> "Regular", Low |-> "Baja", VeryLow |-> "Muy Baja"]

\* C15: the category of a scored record is the function of composite/10*100
\* with the thresholds >=85 Excellent, >=70 VeryGood, >=55 Good, >=40 Fair,
\* >=25 Low, otherwise VeryLow (so a composite of 10 is Excellent). The
\* category is read where the pipeline keeps one: the Scorer's column or the
\* worksheet's.
C15_CategoryThresholds ==
    phase = "published" =>
        \A k \in 1..Len(df_final) :
            (HasScore(df_final[k]) /\ IsValid(df_final[k])
                /\ ~df_final[k].Rentabilidad_Score.nan)
            => \/ df_final[k].Categoria_Rentabilidad
                    = ScorerCategoryName[ClaimedCategory(df_final[k].Rentabilidad_Score)]
               \/ df_sheet[k].Rentabilidad
                    = SheetCategoryName[ClaimedCategory(df_final[k].Rentabilidad_Score)]

\* Moto1 scores 7.5, VeryGood by the thresholds: the Scorer calls it " Baja"
\* (7.5 / 30 = 25 %) and the worksheet "Buena" (7.5 >= 6)
C15_Witness ==
    /\ phase = "published"
    /\ df_motos = Frame(<<Moto1, Moto2, Moto3>>, 3)
    /\ Listing(df_final[1]) = Moto1
    /\ df_final[1].Rentabilidad_Score = Rat(15, 2)
    /\ df_final[1].Categoria_Rentabilidad = " Baja"
    /\ df_sheet[1].Rentabilidad = "Buena"

\* C17: in the rows handed to the publisher only the category is retained
\* from scoring: no row has a score or a ranking column, and a record that
\* had no usable numeric data carries the category "Sin datos", never one of
\* the scored categories.
C17_OnlyCategoryPublished ==
    phase = "published" =>
        \A k \in 1..Len(df_sheet) :
            /\ "Rentabilidad_Score" \notin DOMAIN df_sheet[k]
            /\ "Ranking_Rentabilidad" \notin DOMAIN df_sheet[k]
            /\ IsNotValid(df_sheet[k]) => df_sheet[k].Rentabilidad = "Sin datos"

\* Moto5 has no price: the Scorer gives it the score 0 and "Sin datos", the
\* worksheet drops that column and derives "Baja" from the score 0
C17_Witness ==
    /\ phase = "published"
    /\ df_motos = Frame(<<Moto1, Moto5>>, 2)
    /\ Len(df_sheet) = 2
    /\ Listing(df_sheet[2]) = Moto5
    /\ df_final[2].Categoria_Rentabilidad = "Sin datos"
    /\ df_sheet[2].Rentabilidad = "Baja"
    /\ DOMAIN df_sheet[2] = {"Titulo", "Precio", "Kilometraje", "Anio", "Rentabilidad"}

-----------------------------------------------------------------------------
(* Scoring frames that hold listings without mileage *)

\* 3.000 € of 2020, the mileage not given
Moto10 ==
    [Titulo |-> <<"M", "1", "0">>, Precio |-> <<"3", ".", "0", "0", "0", " ", "€">>,
     Kilometraje |-> NoEspecificado, Anio |-> <<"2", "0", "2", "0">>]

MissingPool == {Moto1, Moto2, Moto5, Moto6, Moto10}

MissingFrames ==
    {Frame(motos, gap) :
        motos \in UNION {[1..n -> MissingPool] : n \in 0..MaxBatch},
        gap \in 0..MaxBatch}

ScorerMissingInit ==
    /\ modelo_key \in Models
    /\ df_motos \in MissingFrames
    /\ phase = "loaded"
    /\ df_final = <<>> /\ df_valido = <<>>
    /\ PublisherIdle
    /\ RunnerIdle
    /\ ScraperIdle
    /\ AllModelsIdle
    /\ ImporterIdle
    /\ df_clean = <<>> /\ stats = <<>> /\ df_again = <<>>
    /\ ParserIdle
    /\ ValidatorIdle

ScorerMissingNext == CalculateRentabilidad

SpecScorerMissing == ScorerMissingInit /\ [][ScorerMissingNext]_vars

\* the price, the mileage and the year of the row are each given by a number
\* in its text
Parseable(row) ==
    /\ HasDigit(row.Precio)
    /\ HasDigit(row.Kilometraje)
    /\ HasDigit(row.Anio)

\* C16: a record whose price, mileage or year text is not parseable takes no
\* part in the normalization: it is not among the rows that are scored (so
\* it moves no minimum or maximum and gets no sub-scores) and it is placed
\* in the "Sin datos" group of the output.
C16_UnparseableExcluded ==
    phase = "scored" =>
        /\ \A i \in 1..Len(df_valido) : Parseable(df_valido[i])
        /\ \A k \in 1..Len(df_final) :
              (HasScore(df_final[k]) /\ ~Parseable(df_final[k]))
                  => df_final[k].Categoria_Rentabilidad = "Sin datos"

\* Moto10 has no mileage: _extract_km gives 0.0, which passes
\* KM_Numerico >= 0, so it is scored as the least used row (mileage
\* sub-score 10) and Moto1, at 5.000 km, gets the mileage sub-score 0
C16_Witness ==
    /\ phase = "scored"
    /\ df_motos = Frame(<<Moto1, Moto10>>, 2)
    /\ Len(df_valido) = 2
    /\ Listing(df_valido[2]) = Moto10
    /\ df_valido[2].Score_KM = Rat(10, 1)
    /\ df_valido[1].Score_KM = Rat(0, 1)
    /\ \A k \in 1..2 : df_final[k].Categoria_Rentabilidad # "Sin datos"

-----------------------------------------------------------------------------
(* Claims about the year parser *)

\* the four characters of s from i on have the form (19|20)dd
IsYearToken(s, i) ==
    /\ i >= 1 /\ i + 3 <= Len(s)
    /\ <<s[i], s[i + 1]>> \in {<<"1", "9">>, <<"2", "0">>}
    /\ s[i + 2] \in Digits /\ s[i + 3] \in Digits

\* the number they spell
TokenYear(s, i) == DigitsValue(SubSeq(s, i, i + 3))

\* the year is one the parser accepts
InYearRange(year) == 1990 <= year /\ year <= CurrentYear + 1

\* C18: _extract_year searches the text for a 4-digit token of the form
\* (19|20)dd and returns it when it lies in [1990, current_year + 1] (2021
\* for "Honda CB125R 2021") and 0 otherwise: it never raises, what it returns
\* is 0 or a year of that range that stands in the text, and when the first
\* such token of the text lies in the range it is the one returned.
C18_YearParser ==
    op = "_extract_year" =>
        /\ ~result.raised
        /\ \/ result.val = Zero
           \/ \E i \in 1..Len(text) :
                 /\ IsYearToken(text, i)
                 /\ InYearRange(TokenYear(text, i))
                 /\ result.val = Dec(TokenYear(text, i))
        /\ \A i \in 1..Len(text) :
              (IsYearToken(text, i) /\ \A j \in 1..(i - 1) : ~IsYearToken(text, j))
                  => result.val = IF InYearRange(TokenYear(text, i))
                                  THEN Dec(TokenYear(text, i)) ELSE Zero
        /\ (\A i \in 1..Len(text) : ~IsYearToken(text, i)) => result.val = Zero
        /\ text = TituloConAnio => result.val = Dec(2021)

\* the parser was given "Honda CB125R 2021" and returned 2021
C18_Witness ==
    /\ op = "_extract_year"
    /\ text = TituloConAnio
    /\ result = Returned(Dec(2021))

-----------------------------------------------------------------------------
(* A run from the command line (config.py, main_runner.py) *)

\* required_fields of validate_config
required_fields == {"nombre", "marca", "precio_min", "precio_max", "sheet_name"}

\* a profile of MODELOS_CONFIG as validate_config reads it: the fields it
\* has and its price range
ConfigProfile(m) ==
    [fields |-> required_fields,
     precio_min |-> MODELOS_CONFIG[m].precio_min,
     precio_max |-> MODELOS_CONFIG[m].precio_max]

\* the configuration of the repository
ValidConfig ==
    [modelos |-> [m \in Models |-> ConfigProfile(m)],
     pesos |-> pesos,
     max_total_scraping_time |-> 18000]

\* the configurations a run may start under: the repository's, and the
\* repository's with one defect
RunConfigs ==
    [valid |-> ValidConfig,
     no_sheet_name |->
        [ValidConfig EXCEPT !.modelos["cb125r"].fields = @ \ {"sheet_name"}],
     no_nombre |->
        [ValidConfig EXCEPT !.modelos["z900"].fields = @ \ {"nombre"}],
     price_range |->
        [ValidConfig EXCEPT !.modelos["pcx125"].precio_min = 4000],
     weights |-> [ValidConfig EXCEPT !.pesos.precio = 50]]

\* config.get(field, 0) on a profile
ProfileGet(profile, field) ==
    IF field \in profile.fields THEN profile[field] ELSE 0

\* "falta campo": the required fields a profile lacks
MissingFields(config) ==
    {e \in Models \X required_fields : e[2] \notin config.modelos[e[1]].fields}

\* "precio_min debe ser menor que precio_max"
BadPriceRanges(config) ==
    {m \in Models :
        ProfileGet(config.modelos[m], "precio_min")
            >= ProfileGet(config.modelos[m], "precio_max")}

\* sum(RENTABILIDAD_CONFIG["pesos"].values()), in hundredths
total_peso(config) ==
    config.pesos.precio + config.pesos.kilometraje + config.pesos.anio

\* abs(total_peso - 1.0) > 0.01
BadWeights(config) ==
    total_peso(config) - 100 > 1 \/ 100 - total_peso(config) > 1

\* the errors validate_config collects
ConfigErrors(config) ==
    [campos |-> MissingFields(config),
     precios |-> BadPriceRanges(config),
     pesos |-> BadWeights(config),
     timeouts |-> config.max_total_scraping_time <= 0]

\* validate_config raises ValueError: the list of errors is not empty
validate_config_raises(config) ==
    \/ ConfigErrors(config).campos # {}
    \/ ConfigErrors(config).precios # {}
    \/ ConfigErrors(config).pesos
    \/ ConfigErrors(config).timeouts

\* the keys of the record extract_anuncio_data_enhanced builds, in their
\* order: the columns of pd.DataFrame(self.results)
ScrapedColumns ==
    <<"URL", "Título", "Precio", "Kilometraje", "Año", "Vendedor",
      "Ubicación", "Fecha_Publicacion", "Fecha_Extraccion">>

HasColumn(columns, c) == \E n \in 1..Len(columns) : columns[n] = c

\* df[c] = ...: a new column goes last, an existing one keeps its place
AddColumn(columns, c) ==
    IF HasColumn(columns, c) THEN columns ELSE Append(columns, c)

\* df.drop(columns=...) of the columns that are there
Without(columns, removed) == SelectSeq(columns, LAMBDA c : c \notin removed)

\* columnas.remove(c); columnas.insert(0, c)
MoveToFront(columns, c) ==
    IF HasColumn(columns, c) THEN <<c>> \o Without(columns, {c}) ELSE columns

\* the columns of the frame calculate_rentabilidad returns when it has
\* ranked rows: the auxiliary columns dropped, then Rentabilidad_Score,
\* Categoria_Rentabilidad and Ranking_Rentabilidad put first
RankedColumns(columns) ==
    MoveToFront(MoveToFront(MoveToFront(
        AddColumn(AddColumn(AddColumn(columns, "Rentabilidad_Score"),
                            "Categoria_Rentabilidad"), "Ranking_Rentabilidad"),
        "Ranking_Rentabilidad"), "Categoria_Rentabilidad"), "Rentabilidad_Score")

\* the columns of df_final of MainRunner.run: what the Scorer returned (its
\* ranking, or the frame as it was given when no row could be scored) and
\* the column 'Rentabilidad' of _calculate_rentabilidad_fast
FinalColumns(columns, ranked) ==
    AddColumn(IF ranked THEN RankedColumns(columns) ELSE columns, "Rentabilidad")

\* desired_columns of MainRunner._format_dataframe_for_save_fast
desired_columns_save ==
    <<"Titulo", "Precio", "Kilometraje", "Año", "Rentabilidad", "Vendedor",
      "Ubicacion", "Fecha_Publicacion", "URL", "Fecha_Extraccion">>

\* desired_columns of GoogleSheetsManager._format_dataframe_for_sheets
desired_columns_sheets ==
    <<"Título", "Precio", "Kilometraje", "Año", "Rentabilidad", "Vendedor",
      "Ubicación", "Fecha_Publicacion", "URL", "Fecha_Extraccion">>

\* final_columns: the desired columns that are there, in the desired order,
\* then every other column in the order of the frame
Reordered(columns, desired) ==
    SelectSeq(desired, LAMBDA c : HasColumn(columns, c))
        \o SelectSeq(columns, LAMBDA c : ~HasColumn(desired, c))

\* the columns of the local snapshot
LocalColumns(columns) ==
    Reordered(Without(columns, columns_to_remove), desired_columns_save)

\* the columns of the uploaded sheet
SheetColumns(columns) ==
    Reordered(AddColumn(Without(columns, columns_to_remove), "Rentabilidad"),
              desired_columns_sheets)

\* _log_final_summary_optimized reads df_final['Titulo'] when the frame is not
\* empty: a KeyError when there is no such column
_log_final_summary_raises(columns) == ~HasColumn(columns, "Titulo")

\* a run that has not started: main has parsed its arguments
StartOfRun(config_name) ==
    [pc |-> "main",
     config |-> config_name,
     config_error_raised |-> FALSE,
     browser_opened |-> FALSE,
     urls_loaded |-> FALSE,
     df_raw_none |-> FALSE,
     test_mode |-> FALSE,
     uploaded |-> FALSE,
     upload_success |-> FALSE,
     rows_published |-> 0,
     local_columns |-> <<>>,
     sheet_columns |-> <<>>,
     summary_raised |-> FALSE,
     escaped |-> FALSE,
     returned |-> "none",
     exit_code |-> -1]

\* main's ending after run_model returned: sys.exit(0) on success, "PROCESO
\* FALLO" and sys.exit(1) otherwise
Exit(run, success) ==
    [run EXCEPT !.pc = "exit",
                !.returned = IF success THEN "True" ELSE "False",
                !.exit_code = IF success THEN 0 ELSE 1]

RunnerInit ==
    /\ modelo_key \in Models
    /\ runner \in {[StartOfRun(c) EXCEPT !.test_mode = t] :
                      c \in DOMAIN RunConfigs, t \in BOOLEAN}
    /\ ParserIdle
    /\ ValidatorIdle
    /\ CleanerIdle
    /\ ScorerIdle
    /\ PublisherIdle
    /\ ScraperIdle
    /\ AllModelsIdle
    /\ ImporterIdle

\* main, run_model and MainRunner.__init__: nothing calls validate_config;
\* __init__ reads modelo_config['nombre'], a KeyError that run_model catches
\* when the profile has no such field
StartRun ==
    /\ runner.pc = "main"
    /\ runner' =
          IF "nombre" \notin RunConfigs[runner.config].modelos[modelo_key].fields
          THEN Exit(runner, FALSE)
          ELSE [runner EXCEPT !.pc = "scraping"]
    /\ UNCHANGED <<modelo_key, parserVars, validatorVars, cleanerVars,
                   scorerVars, publisherVars, scraperVars, allModelsVars, importerVars>>

\* step 1 of MainRunner.run: the scraper opens the browser and loads the
\* search URLs; run returns False when it brings nothing (None on an
\* exception, or an empty frame)
ExecuteScraping ==
    /\ runner.pc = "scraping"
    /\ \E none \in BOOLEAN, df_raw \in OrderBatches :
          /\ none => df_raw = <<>>
          /\ df_motos' = df_raw
          /\ runner' =
                IF none \/ df_raw = <<>>
                THEN Exit([runner EXCEPT !.browser_opened = TRUE,
                                         !.urls_loaded = TRUE,
                                         !.df_raw_none = none], FALSE)
                ELSE [runner EXCEPT !.browser_opened = TRUE,
                                    !.urls_loaded = TRUE,
                                    !.pc = "scraped"]
    /\ UNCHANGED <<modelo_key, df_clean, stats, df_again, phase, parserVars,
                   validatorVars, scorerVars, publisherVars, scraperVars, allModelsVars, importerVars>>

\* steps 2 to 5 of MainRunner.run: the frame is cleaned and run returns False
\* when nothing is left; otherwise it is scored, saved locally (unless in
\* test mode; a failure to save is only logged) and uploaded. When the upload
\* succeeds the final summary is printed, and run returns True after it; the
\* except of run turns an exception of the summary into False
CleanScoreUpload ==
    /\ runner.pc = "scraped"
    /\ df_clean' = clean_data(df_motos, modelo_key).df
    /\ stats' = clean_data(df_motos, modelo_key).stats
    /\ \E success \in BOOLEAN, ranked \in BOOLEAN, saved \in BOOLEAN :
          runner' =
              IF clean_data(df_motos, modelo_key).df = <<>>
              THEN Exit(runner, FALSE)
              ELSE Exit([runner EXCEPT
                            !.uploaded = TRUE,
                            !.upload_success = success,
                            !.rows_published =
                                IF success
                                THEN Len(clean_data(df_motos, modelo_key).df)
                                ELSE 0,
                            !.local_columns =
                                IF runner.test_mode \/ ~saved THEN <<>>
                                ELSE LocalColumns(
                                        FinalColumns(ScrapedColumns, ranked)),
                            !.sheet_columns =
                                IF success
                                THEN SheetColumns(
                                        FinalColumns(ScrapedColumns, ranked))
                                ELSE <<>>,
                            !.summary_raised =
                                success /\ _log_final_summary_raises(
                                    FinalColumns(ScrapedColumns, ranked))],
                        success /\ ~_log_final_summary_raises(
                                        FinalColumns(ScrapedColumns, ranked)))
    /\ UNCHANGED <<modelo_key, df_motos, df_again, phase, parserVars,
                   validatorVars, scorerVars, publisherVars, scraperVars,
                   allModelsVars, importerVars>>

RunnerNext == StartRun \/ ExecuteScraping \/ CleanScoreUpload

SpecRunner == RunnerInit /\ [][RunnerNext]_vars

-----------------------------------------------------------------------------
(* Claims about a run *)

\* C19: a configuration error (a profile missing a required field or with
\* precio_min >= precio_max, or weights not summing to 1.0) is raised at
\* startup and aborts the run before any browser session is opened or any
\* search URL is loaded.
C19_ConfigErrorAborts ==
    (runner.pc \notin {"idle", "main"}
        /\ validate_config_raises(RunConfigs[runner.config]))
    => /\ runner.config_error_raised
       /\ ~runner.browser_opened
       /\ ~runner.urls_loaded

\* the weights sum to 1.10: nothing raised, the browser was opened and the
\* rows were uploaded
C19_Witness ==
    /\ runner.pc = "exit"
    /\ runner.config = "weights"
    /\ validate_config_raises(RunConfigs[runner.config])
    /\ ~runner.config_error_raised
    /\ runner.browser_opened
    /\ runner.upload_success
    /\ runner.rows_published > 0

\* the run ended with no valid listing: none scraped, or none left by the
\* Cleaner
ZeroValidListings ==
    /\ runner.pc = "exit"
    /\ runner.browser_opened
    /\ df_motos = <<>> \/ df_clean = <<>>

\* C20: a run that ends with zero valid listings is reported as a warning
\* with zero rows published: no exception escapes MainRunner.run, the
\* publisher is never called, and the outcome is not reported as a failed
\* run.
C20_ZeroListingsIsWarning ==
    (runner.pc # "idle" /\ ZeroValidListings)
    => /\ ~runner.escaped
       /\ ~runner.uploaded
       /\ runner.rows_published = 0
       /\ runner.returned # "False"
       /\ runner.exit_code # 1

\* one listing was scraped and the Cleaner dropped it: run returned False and
\* main printed "PROCESO FALLO" and left with exit code 1
C20_Witness ==
    /\ runner.pc = "exit"
    /\ runner.config = "valid"
    /\ Len(df_motos) = 1
    /\ df_clean = <<>>
    /\ ~runner.uploaded
    /\ ~runner.escaped
    /\ runner.returned = "False"
    /\ runner.exit_code = 1

-----------------------------------------------------------------------------
(* The scraper: BaseScraper.scrape_model and process_search_url_extended.  *)
(* A listing link is a number; times are seconds of time.time().           *)

nonScraperVars ==
    <<modelo_key, parserVars, validatorVars, cleanerVars, scorerVars,
      publisherVars, runnerVars, allModelsVars, importerVars>>

\* max_total_time = 14400 if is_github_actions() else 18000
max_total_time(ci) == IF ci THEN 14400 ELSE 18000

\* max_url_time = 2400 if is_github_actions() else 3600
max_url_time(ci) == IF ci THEN 2400 ELSE 3600

\* max_anuncios = 50 if is_github_actions() else len(enlaces)
max_anuncios(ci, enlaces) == IF ci THEN 50 ELSE Len(enlaces)

\* enlaces[:max_anuncios]
Slice(enlaces, n) ==
    SubSeq(enlaces, 1, IF n < Len(enlaces) THEN n ELSE Len(enlaces))

\* what a search URL gives: driver.get raises, or get_anuncio_links_enhanced
\* returns the links of the page (each once: "href not in enlaces")
SearchPages ==
    [listado  |-> [get_raises |-> FALSE, enlaces |-> <<1, 2, 3>>],
     repetido |-> [get_raises |-> FALSE, enlaces |-> <<3, 4, 6>>],
     caido    |-> [get_raises |-> TRUE,  enlaces |-> <<>>],
     vacio    |-> [get_raises |-> FALSE, enlaces |-> <<>>],
     largo    |-> [get_raises |-> FALSE, enlaces |-> [k \in 1..51 |-> k]]]

\* the lists get_search_urls may return
UrlLists ==
    {<<>>,
     <<"listado">>,
     <<"listado", "repetido">>,
     <<"caido", "listado">>,
     <<"vacio", "repetido">>,
     <<"listado", "caido", "repetido">>,
     <<"repetido", "listado", "repetido">>,
     <<"largo">>,
     <<"largo", "repetido">>,
     <<"largo", "listado", "caido", "repetido">>}

\* what visiting a listing gives: "valid" (a record that validate_moto_data
\* accepts), "not_valid" (one it rejects), "get_raises" (the page does not
\* load: extract_anuncio_data_enhanced returns None), "validate_raises"
\* (validate_moto_data raises)
Sites ==
    [sano  |-> [k \in 1..51 |-> "valid"],
     mixto |-> [k \in 1..51 |->
                  CASE k % 5 = 1 -> "valid"
                    [] k % 5 = 2 -> "get_raises"
                    [] k % 5 = 3 -> "valid"
                    [] k % 5 = 4 -> "not_valid"
                    [] OTHER     -> "validate_raises"],
     malo  |-> [k \in 1..51 |->
                  CASE k % 3 = 1 -> "validate_raises"
                    [] k % 3 = 2 -> "not_valid"
                    [] OTHER     -> "valid"]]

\* how long a blocking step may take: no time worth counting, 25 minutes,
\* two and a half hours
Durations == {0, 1500, 9000}

\* a reading of time.time() - start after d more seconds; readings beyond
\* the budget they are compared with are not told apart
Tick(t, d, max) == IF t + d > max THEN max + 1 ELSE t + d

\* __init__ (results = [], processed_urls = set()) and the call of
\* scrape_model; started, loaded, failures, late_url, late_listing,
\* total_timeout and url_timeouts record what the scrape has done
StartOfScrape(ci, site, search_urls) ==
    [pc |-> "start",
     ci |-> ci,
     site |-> site,
     search_urls |-> search_urls,
     i |-> 1,
     enlaces |-> <<>>,
     j |-> 0,
     results |-> <<>>,
     processed_urls |-> {},
     elapsed_time |-> 0,
     elapsed_url_time |-> 0,
     started |-> {},
     loaded |-> <<>>,
     considered |-> 0,
     failures |-> <<>>,
     late_url |-> FALSE,
     late_listing |-> FALSE,
     total_timeout |-> FALSE,
     url_timeouts |-> {},
     setup_failed |-> FALSE,
     returned |-> <<>>]

\* "if elapsed_time > max_total_time"
TotalTimeReached(sc) == sc.elapsed_time > max_total_time(sc.ci)

UrlTimeReached_Never(sc) == FALSE

\* "if elapsed_url_time > max_url_time"
UrlTimeReached(sc) == sc.elapsed_url_time > max_url_time(sc.ci)

AlreadyProcessed_Never(sc) == FALSE

\* "if enlace in self.processed_urls"
AlreadyProcessed(sc) == sc.enlaces[sc.j] \in sc.processed_urls

\* the end of scrape_model: pd.DataFrame(self.results), or an empty frame
\* when there are no results
ReturnResults(sc) == [sc EXCEPT !.pc = "done", !.returned = sc.results]

\* process_search_url_extended has returned; time.sleep(2) and the next
\* turn of the loop over search_urls
NextUrl(sc, d) ==
    [sc EXCEPT !.pc = "urls",
               !.i = @ + 1,
               !.enlaces = <<>>,
               !.j = 0,
               !.elapsed_url_time = 0,
               !.elapsed_time = Tick(@, d, max_total_time(sc.ci))]

\* the next turn of the loop over enlaces, d seconds later
NextEnlace(sc, d) ==
    [sc EXCEPT !.j = @ + 1,
               !.elapsed_url_time = Tick(@, d, max_url_time(sc.ci)),
               !.elapsed_time = Tick(@, d, max_total_time(sc.ci))]

\* a failure is logged: which search URL, which listing (0: the search
\* page itself), how many records were held
Logged(sc, enlace) ==
    [sc EXCEPT !.failures =
        Append(@, [search |-> sc.i, enlace |-> enlace,
                   collected |-> Len(sc.results)])]

CatchAnuncioError_Propagates(sc, d) ==
    [Logged(sc, sc.enlaces[sc.j]) EXCEPT !.pc = "done", !.returned = <<>>]

\* "except Exception as e: ... continue" of the loop over enlaces, and the
\* None that extract_anuncio_data_enhanced returns from its own except
CatchAnuncioError(sc, d) == NextEnlace(Logged(sc, sc.enlaces[sc.j]), d)

\* the body of the loop over enlaces for a link not yet processed
ProcessAnuncio(sc, d) ==
    LET enlace == sc.enlaces[sc.j]
        outcome == Sites[sc.site][enlace]
        visited == [sc EXCEPT !.loaded = Append(@, enlace),
                              !.late_listing =
                                  @ \/ sc.elapsed_url_time > max_url_time(sc.ci)]
    IN  CASE outcome = "valid" ->
               NextEnlace([visited EXCEPT
                              !.results = Append(@, [URL |-> enlace]),
                              !.processed_urls = @ \union {enlace}], d)
          [] outcome = "not_valid" -> NextEnlace(visited, d)
          [] OTHER -> CatchAnuncioError(visited, d)

\* process_search_url_extended up to the loop over enlaces
process_search_url_extended(sc, d) ==
    LET page == SearchPages[sc.search_urls[sc.i]]
        begun == [sc EXCEPT !.started = @ \union {sc.i},
                            !.late_url = @ \/ TotalTimeReached(sc)]
    IN  IF page.get_raises THEN NextUrl(Logged(begun, 0), d)
        ELSE IF page.enlaces = <<>> THEN NextUrl(begun, d)
        ELSE [begun EXCEPT
                 !.pc = "links",
                 !.enlaces = Slice(page.enlaces,
                                   max_anuncios(sc.ci, page.enlaces)),
                 !.considered = Len(Slice(page.enlaces,
                                    max_anuncios(sc.ci, page.enlaces))),
                 !.j = 1,
                 !.elapsed_url_time = Tick(0, d, max_url_time(sc.ci)),
                 !.elapsed_time = Tick(@, d, max_total_time(sc.ci))]

ScraperInit ==
    /\ scraper \in {StartOfScrape(ci, site, urls) :
                       ci \in BOOLEAN, site \in DOMAIN Sites, urls \in UrlLists}
    /\ modelo_key = "none"
    /\ ParserIdle
    /\ ValidatorIdle
    /\ CleanerIdle
    /\ ScorerIdle
    /\ PublisherIdle
    /\ RunnerIdle
    /\ AllModelsIdle
    /\ ImporterIdle

\* setup_driver: when it raises, the except of scrape_model returns an empty
\* frame
SetupDriver ==
    /\ scraper.pc = "start"
    /\ \E raises \in BOOLEAN :
          scraper' = IF raises
                     THEN [scraper EXCEPT !.pc = "done", !.setup_failed = TRUE]
                     ELSE [scraper EXCEPT !.pc = "urls"]
    /\ UNCHANGED nonScraperVars

\* the loop over search_urls: the total time is read, then the URL is
\* processed
ProcessSearchUrl ==
    /\ scraper.pc = "urls"
    /\ scraper.i <= Len(scraper.search_urls)
    /\ ~TotalTimeReached(scraper)
    /\ \E d \in Durations :
          scraper' = process_search_url_extended(scraper, d)
    /\ UNCHANGED nonScraperVars

\* "Tiempo limite alcanzado": break
BreakOnTotalTime ==
    /\ scraper.pc = "urls"
    /\ scraper.i <= Len(scraper.search_urls)
    /\ TotalTimeReached(scraper)
    /\ scraper' = ReturnResults([scraper EXCEPT !.total_timeout = TRUE])
    /\ UNCHANGED nonScraperVars

\* the loop over search_urls is over
EndOfSearchUrls ==
    /\ scraper.pc = "urls"
    /\ scraper.i > Len(scraper.search_urls)
    /\ scraper' = ReturnResults(scraper)
    /\ UNCHANGED nonScraperVars

\* "Timeout de URL alcanzado": break
BreakOnUrlTime ==
    /\ scraper.pc = "links"
    /\ scraper.j <= Len(scraper.enlaces)
    /\ UrlTimeReached(scraper)
    /\ scraper' = NextUrl([scraper EXCEPT !.url_timeouts = @ \union {scraper.i}], 0)
    /\ UNCHANGED nonScraperVars

\* "if enlace in self.processed_urls: continue"
SkipProcessed ==
    /\ scraper.pc = "links"
    /\ scraper.j <= Len(scraper.enlaces)
    /\ ~UrlTimeReached(scraper)
    /\ AlreadyProcessed(scraper)
    /\ scraper' = NextEnlace(scraper, 0)
    /\ UNCHANGED nonScraperVars

\* a listing is loaded, extracted and validated
ExtractAnuncio ==
    /\ scraper.pc = "links"
    /\ scraper.j <= Len(scraper.enlaces)
    /\ ~UrlTimeReached(scraper)
    /\ ~AlreadyProcessed(scraper)
    /\ \E d \in Durations : scraper' = ProcessAnuncio(scraper, d)
    /\ UNCHANGED nonScraperVars

\* the loop over enlaces is over
EndOfEnlaces ==
    /\ scraper.pc = "links"
    /\ scraper.j > Len(scraper.enlaces)
    /\ scraper' = NextUrl(scraper, 0)
    /\ UNCHANGED nonScraperVars

ScraperNext ==
    \/ SetupDriver
    \/ ProcessSearchUrl
    \/ BreakOnTotalTime
    \/ EndOfSearchUrls
    \/ BreakOnUrlTime
    \/ SkipProcessed
    \/ ExtractAnuncio
    \/ EndOfEnlaces

\* one thread, and every blocking call has a timeout (page load 30 s,
\* script 20 s): a step that can be taken is taken
SpecScraper == ScraperInit /\ [][ScraperNext]_vars /\ WF_vars(ScraperNext)

-----------------------------------------------------------------------------
(* Claims about the scraper *)

IsPrefix(a, b) == Len(a) <= Len(b) /\ SubSeq(b, 1, Len(a)) = a

\* the URLs of the records of a collection
Urls(records) == {records[n].URL : n \in 1..Len(records)}

\* the listings the scrape loaded and validate_moto_data accepted
ValidatedLinks(sc) == {k \in Range(sc.loaded) : Sites[sc.site][k] = "valid"}

\* the links of search URL i that the loop over enlaces is given
ConsideredLinks(sc, i) ==
    Range(Slice(SearchPages[sc.search_urls[i]].enlaces,
                max_anuncios(sc.ci, SearchPages[sc.search_urls[i]].enlaces)))

\* the scrape has ended after at least one failure: the batch is the whole
\* collection, it holds every validated record, every search URL was started
\* unless the total budget ran out, and every listing of a started URL was
\* loaded unless its budget ran out
C21_EndedAfterFailure ==
    (scraper.pc = "done" /\ scraper.failures # <<>>)
    => /\ scraper.returned = scraper.results
       /\ Urls(scraper.returned) = ValidatedLinks(scraper)
       /\ \A n \in 1..Len(scraper.failures) :
             Len(scraper.returned) >= scraper.failures[n].collected
       /\ ~scraper.total_timeout
             => scraper.started = 1..Len(scraper.search_urls)
       /\ \A i \in scraper.started \ scraper.url_timeouts :
             ConsideredLinks(scraper, i) \subseteq Range(scraper.loaded)

\* C21: a failure while loading or processing one search URL or one listing
\* page never discards records already collected and never stops the scrape:
\* the remaining listings and search URLs are still processed, and the final
\* batch contains every record that was validated before and after the
\* failure.
C21_FailureDoesNotStopScrape ==
    /\ [][IsPrefix(scraper.results, scraper'.results)]_vars
    /\ [](C21_EndedAfterFailure)
    /\ (scraper.failures # <<>>) ~> (scraper.pc = "done")

\* a listing failed with one record held and a search page failed with two
\* held; the scrape went on and its batch holds a record validated after
\* both
C21_Witness ==
    /\ scraper.pc = "done"
    /\ ~scraper.total_timeout
    /\ scraper.url_timeouts = {}
    /\ \E n \in 1..Len(scraper.failures) :
          /\ scraper.failures[n].enlace # 0
          /\ scraper.failures[n].collected = 1
    /\ \E n \in 1..Len(scraper.failures) :
          /\ scraper.failures[n].enlace = 0
          /\ scraper.failures[n].collected = 2
    /\ Len(scraper.returned) = 3

\* C24: wall-clock budgets bound the scrape: once the time spent on a search
\* URL exceeds the per-URL budget no further listing of that URL is loaded
\* and the scraper proceeds to the next search URL; once the total elapsed
\* time exceeds the total budget no further search URL is started; and on CI
\* at most 50 listing links of one search URL are considered.
C24_Budgets ==
    scraper.pc # "idle"
    => /\ ~scraper.late_listing
       /\ ~scraper.late_url
       /\ scraper.ci => Len(scraper.enlaces) <= 50 /\ scraper.considered <= 50
       /\ (scraper.pc = "done" /\ ~scraper.total_timeout)
             => \A i \in scraper.url_timeouts :
                   i < Len(scraper.search_urls) => i + 1 \in scraper.started
       /\ scraper.total_timeout
             => /\ scraper.i \notin scraper.started
                /\ scraper.i <= Len(scraper.search_urls)

\* on CI: 50 of the 51 links of the first page were loaded, the second URL
\* ran out of its budget and the third was started all the same, and the
\* total budget ran out before the fourth
C24_Witness ==
    /\ scraper.pc = "done"
    /\ scraper.ci
    /\ scraper.search_urls = <<"largo", "listado", "caido", "repetido">>
    /\ 50 \in Range(scraper.loaded)
    /\ 51 \notin Range(scraper.loaded)
    /\ scraper.url_timeouts = {2}
    /\ scraper.started = {1, 2, 3}
    /\ scraper.total_timeout

\* no two records of the collection have the same URL
NoRepeatedUrl(records) ==
    \A m, n \in 1..Len(records) : records[m].URL = records[n].URL => m = n

\* C27: after any sequence of search URLs and listing visits within one
\* scrape, the result collection only grows, contains no two records with
\* the same URL, contains only records for which validate_moto_data returned
\* True, and processed_urls is exactly the set of URLs of the records in
\* the collection.
C27_ResultCollection ==
    /\ [][IsPrefix(scraper.results, scraper'.results)]_vars
    /\ [](/\ NoRepeatedUrl(scraper.results)
          /\ \A n \in 1..Len(scraper.results) :
                Sites[scraper.site][scraper.results[n].URL] = "valid"
          /\ scraper.processed_urls = Urls(scraper.results))

\* three search URLs that share listings: three records were collected, a
\* processed listing was met again and skipped, and listings that were not
\* valid were loaded and left out
C27_Witness ==
    /\ scraper.pc = "done"
    /\ scraper.search_urls = <<"repetido", "listado", "repetido">>
    /\ scraper.site = "mixto"
    /\ scraper.url_timeouts = {}
    /\ scraper.started = {1, 2, 3}
    /\ scraper.loaded = <<3, 4, 6, 1, 2, 4>>
    /\ scraper.processed_urls = {1, 3, 6}
    /\ Len(scraper.results) = 3

-----------------------------------------------------------------------------
(* Claims about the result of a run and the columns it writes *)

\* every step of the run succeeded: the scrape brought a record, the Cleaner
\* left one, and the upload reported success
RunSucceeded ==
    /\ df_motos # <<>>
    /\ df_clean # <<>>
    /\ runner.upload_success

\* C22: MainRunner.run returns True exactly when the run was successful: a
\* run whose scrape brought at least one record, whose cleaning left at least
\* one, whose scoring completed and whose upload reported success returns
\* True, and run returns False only when one of these steps failed.
C22_TrueIffSuccessful ==
    runner.pc = "exit" => (runner.returned = "True" <=> RunSucceeded)

\* the rows were uploaded, the summary raised KeyError('Titulo'), and run
\* returned False: main left with exit code 1
C22_Witness ==
    /\ runner.pc = "exit"
    /\ RunSucceeded
    /\ runner.rows_published > 0
    /\ runner.summary_raised
    /\ runner.returned = "False"
    /\ runner.exit_code = 1

\* the order the columns are to have, in the names the scraper gives them
ClaimedColumns ==
    <<"Título", "Precio", "Kilometraje", "Año", "Rentabilidad", "Vendedor",
      "Ubicación", "Fecha_Publicacion", "URL", "Fecha_Extraccion">>

\* C23: the local snapshot and the uploaded sheet both list their columns in
\* the fixed order Title, Price, Mileage, Year, Category, Seller, Location,
\* PublishDate, URL, ExtractionDate for scraper-produced records, with the
\* numeric score, the ranking, the description and the detailed category
\* removed.
C23_ColumnOrder ==
    runner.pc = "exit"
    => /\ runner.sheet_columns # <<>> => runner.sheet_columns = ClaimedColumns
       /\ runner.local_columns # <<>> => runner.local_columns = ClaimedColumns

\* the sheet has the claimed order; the snapshot starts with the price and
\* ends with the title and the location
C23_Witness ==
    /\ runner.pc = "exit"
    /\ runner.sheet_columns = ClaimedColumns
    /\ runner.local_columns =
          <<"Precio", "Kilometraje", "Año", "Rentabilidad", "Vendedor",
            "Fecha_Publicacion", "URL", "Fecha_Extraccion", "Título",
            "Ubicación">>

-----------------------------------------------------------------------------
(* The resolution of a model's scraper: MainRunner._import_scraper_module  *)
(* and the getattr of _execute_scraping_ultra_optimized, on the modules of *)
(* the package scrapers. sys.modules lasts as long as the process, which   *)
(* may resolve several models one after the other (run_all).               *)

nonImporterVars ==
    <<modelo_key, parserVars, validatorVars, cleanerVars, scorerVars,
      publisherVars, runnerVars, scraperVars, allModelsVars>>

MaxImports == 5

\* the names each module of the package defines at its top level
ModuleNames ==
    [base_scraper |-> {"BaseScraper", "test_base_scraper"},
     scraper_cb125r |->
        {"setup_browser", "get_search_urls_optimized",
         "extract_title_from_snippet_FIXED", "extract_price_from_snippet_FIXED",
         "click_load_more_button_FIXED", "smart_scroll_and_load_FIXED",
         "validate_snippet_cb125r_FIXED", "scrape_cb125r_ULTRA_OPTIMIZADO",
         "extract_detailed_data_FIXED", "extract_with_selectors", "main"},
     scraper_pcx125 |-> {"ScraperPCX125", "run_pcx125_scraper"},
     scraper_agility125 |-> {"ScraperAGILITY125", "run_agility125_scraper"},
     scraper_z900 |-> {"ScraperZ900", "run_z900_scraper"},
     scraper_mt07 |-> {"ScraperMT07", "run_mt07_scraper"}]

\* the methods the scraper classes define besides those of BaseScraper
ClassMethods ==
    [c \in {"ScraperPCX125", "ScraperAGILITY125", "ScraperZ900", "ScraperMT07"}
        |-> {"__init__", "get_search_urls", "validate_moto_data"}]

\* the "from .module import name" statements of scrapers/__init__.py, in
\* their order
PackageImports ==
    <<[module |-> "base_scraper", name |-> "BaseScraper"],
      [module |-> "scraper_cb125r", name |-> "ScraperCB125R"],
      [module |-> "scraper_pcx125", name |-> "ScraperPCX125"],
      [module |-> "scraper_agility125", name |-> "ScraperAGILITY125"],
      [module |-> "scraper_z900", name |-> "ScraperZ900"],
      [module |-> "scraper_mt07", name |-> "ScraperMT07"],
      [module |-> "scraper_cb125r", name |-> "run_cb125r_scraper"],
      [module |-> "scraper_pcx125", name |-> "run_pcx125_scraper"],
      [module |-> "scraper_agility125", name |-> "run_agility125_scraper"],
      [module |-> "scraper_z900", name |-> "run_z900_scraper"],
      [module |-> "scraper_mt07", name |-> "run_mt07_scraper"]>>

\* f"scrapers.scraper_{self.modelo_key}", without the name of the package
ScraperModuleName ==
    [cb125r |-> "scraper_cb125r", pcx125 |-> "scraper_pcx125",
     agility125 |-> "scraper_agility125", z900 |-> "scraper_z900",
     mt07 |-> "scraper_mt07"]

\* f"Scraper{self.modelo_key.upper()}"
ScraperClassName ==
    [cb125r |-> "ScraperCB125R", pcx125 |-> "ScraperPCX125",
     agility125 |-> "ScraperAGILITY125", z900 |-> "ScraperZ900",
     mt07 |-> "ScraperMT07"]

\* the execution of scrapers/__init__.py from its k-th import on: a module
\* is loaded (and stays in sys.modules) before the name is looked up in it;
\* a missing name raises ImportError and the package is not kept
RECURSIVE PackageInit(_, _)
PackageInit(k, sys_modules) ==
    IF k > Len(PackageImports)
    THEN [raised |-> FALSE, sys_modules |-> sys_modules \union {"scrapers"}]
    ELSE IF PackageImports[k].name \in ModuleNames[PackageImports[k].module]
    THEN PackageInit(k + 1, sys_modules \union {PackageImports[k].module})
    ELSE [raised |-> TRUE,
          sys_modules |-> sys_modules \union {PackageImports[k].module}]

\* __import__("scrapers." + module, fromlist=[...]): a module already in
\* sys.modules is returned as it is; otherwise the package is imported first
ImportModule(sys_modules, module) ==
    IF module \in sys_modules THEN [raised |-> FALSE, sys_modules |-> sys_modules]
    ELSE IF "scrapers" \in sys_modules
    THEN [raised |-> FALSE, sys_modules |-> sys_modules \union {module}]
    ELSE LET package == PackageInit(1, sys_modules)
         IN  IF package.raised THEN package
             ELSE [raised |-> FALSE,
                   sys_modules |-> package.sys_modules \union {module}]

\* how a resolution ends: "class" with the class, or None after the
\* exception named
Resolved(imp, outcome) ==
    [imp EXCEPT !.pc = "ready",
                !.log = Append(@, [key |-> imp.key, outcome |-> outcome])]

ImporterInit ==
    /\ importer = [pc |-> "ready", sys_modules |-> {}, key |-> "none",
                   log |-> <<>>]
    /\ modelo_key = "none"
    /\ ParserIdle
    /\ ValidatorIdle
    /\ CleanerIdle
    /\ ScorerIdle
    /\ PublisherIdle
    /\ RunnerIdle
    /\ ScraperIdle
    /\ AllModelsIdle

\* _import_scraper_module for some model: the module, or None on ImportError
ImportScraperModule ==
    /\ importer.pc = "ready"
    /\ Len(importer.log) < MaxImports
    /\ \E key \in Models :
          LET imported == ImportModule(importer.sys_modules, ScraperModuleName[key])
              begun == [importer EXCEPT !.key = key,
                                        !.sys_modules = imported.sys_modules]
          IN  importer' = IF imported.raised
                          THEN Resolved(begun, "ImportError")
                          ELSE [begun EXCEPT !.pc = "imported"]
    /\ UNCHANGED nonImporterVars

\* getattr(scraper_module, f"Scraper{self.modelo_key.upper()}"): the class,
\* or AttributeError, which the except of the method turns into None
GetScraperClass ==
    /\ importer.pc = "imported"
    /\ importer' =
          IF ScraperClassName[importer.key]
                \in ModuleNames[ScraperModuleName[importer.key]]
          THEN Resolved(importer, "class")
          ELSE Resolved(importer, "AttributeError")
    /\ UNCHANGED nonImporterVars

ImporterNext == ImportScraperModule \/ GetScraperClass

SpecImporter == ImporterInit /\ [][ImporterNext]_vars

\* the resolution gave a class that has get_search_urls and validate_moto_data
StepCanStart(entry) ==
    /\ entry.outcome = "class"
    /\ {"get_search_urls", "validate_moto_data"}
          \subseteq ClassMethods[ScraperClassName[entry.key]]

\* C26: for every model key in MODELOS_CONFIG (cb125r, pcx125, agility125,
\* z900, mt07), MainRunner resolves module scrapers.scraper_<key> and a class
\* named Scraper<KEY uppercased> that provides get_search_urls and
\* validate_moto_data, so that the scraping step can start for every
\* configured model.
C26_EveryModelResolves ==
    importer.pc # "idle"
    => \A n \in 1..Len(importer.log) : StepCanStart(importer.log[n])

\* one process has tried every model, cb125r last: the first four ended with
\* ImportError and cb125r, whose module was by then in sys.modules, with
\* AttributeError
C26_Witness ==
    /\ importer.pc = "ready"
    /\ Len(importer.log) = 5
    /\ {importer.log[n].key : n \in 1..4} = Models \ {"cb125r"}
    /\ \A n \in 1..4 : importer.log[n].outcome = "ImportError"
    /\ importer.log[5] = [key |-> "cb125r", outcome |-> "AttributeError"]

-----------------------------------------------------------------------------
(* Several models in a row: AllModelsRunnerExtendido.run_all *)

nonAllModelsVars ==
    <<modelo_key, parserVars, validatorVars, cleanerVars, scorerVars,
      publisherVars, runnerVars, scraperVars, importerVars>>

\* list(MODELOS_CONFIG.keys())
get_all_modelos == <<"cb125r", "pcx125", "agility125", "z900", "mt07">>

\* the lists of models run_all is given: none (all the models), the subsets
\* of run_subset, and lists of --models, which may name a model twice
ModelLists ==
    {<<>>,
     <<"cb125r">>,
     <<"cb125r", "pcx125">>,
     <<"mt07", "z900">>,
     <<"cb125r", "pcx125", "agility125">>,
     <<"z900", "mt07", "z900">>}

\* self.stats['model_results'][modelo] = resultado
Record(model_results, modelo, resultado) ==
    [k \in (DOMAIN model_results) \union {modelo} |->
        IF k = modelo THEN resultado ELSE model_results[k]]

\* __init__: selected_models or get_all_modelos(), and the statistics
AllModelsRunnerExtendido(selected_models) ==
    [pc |-> "start",
     selected_models |->
        IF selected_models = <<>> THEN get_all_modelos ELSE selected_models,
     total_models |->
        IF selected_models = <<>> THEN Len(get_all_modelos)
        ELSE Len(selected_models),
     successful |-> 0,
     failed |-> 0,
     model_results |-> [k \in {} |-> "SUCCESS"],
     i |-> 1,
     ran |-> <<>>,
     connection_ok |-> FALSE,
     interrupted |-> FALSE]

\* _finalize_stats: run_all returns the statistics
_finalize_stats(run) == [run EXCEPT !.pc = "returned"]

\* "except KeyboardInterrupt": the model is recorded as INTERRUPTED and the
\* loop is left
Interrupted(run) ==
    _finalize_stats(
        [run EXCEPT !.interrupted = TRUE,
                    !.model_results =
                        Record(@, run.selected_models[run.i], "INTERRUPTED")])

\* the counting of a model whose run returned success
CountResult(run, success) ==
    [run EXCEPT !.ran = Append(@, run.selected_models[run.i]),
                !.successful = IF success THEN @ + 1 ELSE @,
                !.failed = IF success THEN @ ELSE @ + 1,
                !.model_results =
                    Record(@, run.selected_models[run.i],
                           IF success THEN "SUCCESS" ELSE "FAILED")]

AllModelsInit ==
    /\ all_models \in {AllModelsRunnerExtendido(l) : l \in ModelLists}
    /\ modelo_key = "none"
    /\ ParserIdle
    /\ ValidatorIdle
    /\ CleanerIdle
    /\ ScorerIdle
    /\ PublisherIdle
    /\ RunnerIdle
    /\ ScraperIdle
    /\ ImporterIdle

\* _test_initial_connection: run_all returns at once when it fails
TestInitialConnection ==
    /\ all_models.pc = "start"
    /\ \E ok \in BOOLEAN :
          all_models' =
              IF ok THEN [all_models EXCEPT !.pc = "loop", !.connection_ok = TRUE]
              ELSE _finalize_stats(all_models)
    /\ UNCHANGED nonAllModelsVars

\* one turn of the loop up to the pause: _run_single_model_extended returns
\* what MainRunner.run returned, False when anything raised an Exception in
\* it; a KeyboardInterrupt goes through it to run_all
RunSingleModel ==
    /\ all_models.pc = "loop"
    /\ all_models.i <= Len(all_models.selected_models)
    /\ \E outcome \in {"True", "False", "Exception", "KeyboardInterrupt"} :
          all_models' =
              IF outcome = "KeyboardInterrupt"
              THEN Interrupted([all_models EXCEPT
                      !.ran = Append(@, all_models.selected_models[all_models.i])])
              ELSE IF all_models.i < Len(all_models.selected_models)
              THEN [CountResult(all_models, outcome = "True") EXCEPT !.pc = "pause"]
              ELSE [CountResult(all_models, outcome = "True") EXCEPT !.i = @ + 1]
    /\ UNCHANGED nonAllModelsVars

\* _inter_model_pause_extended, inside the try of the turn: minutes of
\* time.sleep, during which the user may interrupt
InterModelPause ==
    /\ all_models.pc = "pause"
    /\ \E interrupt \in BOOLEAN :
          all_models' =
              IF interrupt THEN Interrupted(all_models)
              ELSE [all_models EXCEPT !.pc = "loop", !.i = @ + 1]
    /\ UNCHANGED nonAllModelsVars

\* the loop is over
FinalizeStats ==
    /\ all_models.pc = "loop"
    /\ all_models.i > Len(all_models.selected_models)
    /\ all_models' = _finalize_stats(all_models)
    /\ UNCHANGED nonAllModelsVars

AllModelsNext ==
    \/ TestInitialConnection
    \/ RunSingleModel
    \/ InterModelPause
    \/ FinalizeStats

SpecAllModels == AllModelsInit /\ [][AllModelsNext]_vars

\* the models were run in the order of the list, none skipped
RanInOrder ==
    all_models.ran = SubSeq(all_models.selected_models, 1, Len(all_models.ran))

\* run_all has returned after a successful connection test and without an
\* interrupt
ReturnedUninterrupted ==
    /\ all_models.pc = "returned"
    /\ all_models.connection_ok
    /\ ~all_models.interrupted

\* C30: in run_all, models are run one at a time in list order and a model
\* that fails or raises does not prevent the following models from running;
\* at every point successful + failed equals the number of models with a
\* recorded result and never exceeds total_models, and when run_all returns
\* after a successful connection test and without user interrupt, successful
\* + failed = total_models.
C30_RunAllCounts ==
    all_models.pc # "idle"
    => /\ RanInOrder
       /\ all_models.successful + all_models.failed
             = Cardinality(DOMAIN all_models.model_results)
       /\ all_models.successful + all_models.failed <= all_models.total_models
       /\ ReturnedUninterrupted
             => /\ all_models.ran = all_models.selected_models
                /\ all_models.successful + all_models.failed
                      = all_models.total_models

\* a list that names z900 twice, every run counted: successful + failed is 3
\* and two models have a recorded result
C30_Witness ==
    /\ ReturnedUninterrupted
    /\ all_models.selected_models = <<"z900", "mt07", "z900">>
    /\ all_models.successful + all_models.failed = 3
    /\ DOMAIN all_models.model_results = {"z900", "mt07"}

-----------------------------------------------------------------------------
(* The Cleaner's and the Scorer's parsers side by side (SpecParser) *)

\* C28: the Cleaner's and the Scorer's numeric parsers agree: whatever the
\* text, _extract_price_number and _extract_price return the same value, and
\* _extract_km_number and _extract_km return the same value ("7,690" and
\* "12,5 km" included)
C28_ParsersAgree ==
    /\ _extract_price_number(text) = _extract_price(text)
    /\ _extract_km_number(text) = _extract_km(text)

\* C28 witness: the Scorer's price parser was given "7,690 €" and returned
\* 7690.0; the Cleaner's returns 7.0 for the same text
C28_Witness ==
    /\ op = "_extract_price"
    /\ text = Precio7Coma690
    /\ result = Returned(Dec(7690))
    /\ _extract_price_number(text) = Returned(Dec(7))

-----------------------------------------------------------------------------
(* The validators' price check on the price texts of the parsers *)

Precio4500Coma50 == <<"4", ".", "5", "0", "0", ",", "5", "0", " ", "€">>
Precio19Coma90 == <<"1", "9", ",", "9", "0", " ", "€">>

\* the price texts tried: thousands with dots, decimals with commas, both
ListingPriceTexts ==
    DotTexts \cup CommaTexts \cup SpanishTexts \cup PlainTexts
        \cup PrecioTexts \cup {Precio4500Coma50, Precio19Coma90}

\* a candidate whose title and year every step but the price check accepts
PriceCheckInit ==
    /\ modelo_key \in Models
    /\ verdict = "pending"
    /\ \E p \in ListingPriceTexts :
          moto_data = [Titulo |-> MODELOS_CONFIG[modelo_key].nombre,
                       Precio |-> p, Anio |-> Anio2020]
    /\ ParserIdle
    /\ CleanerIdle
    /\ ScorerIdle
    /\ PublisherIdle
    /\ RunnerIdle
    /\ ScraperIdle
    /\ AllModelsIdle
    /\ ImporterIdle

SpecPriceCheck == PriceCheckInit /\ [][ValidatorNext]_vars

\* the value LimpiadorIntegrado._extract_price_number gives for the price text
ParsedPrice == _extract_price_number(moto_data.Precio).val

\* the parsed price is present and outside [precio_min, precio_max]
ParsedPriceOutOfRange ==
    /\ ParsedPrice # Zero
    /\ ~(/\ DecLeq(Dec(Profile.precio_min), ParsedPrice)
         /\ DecLeq(ParsedPrice, Dec(Profile.precio_max)))

\* C25: the validator's price decision is the range check on the value the
\* numeric text parser gives for the price text: a candidate whose title and
\* year pass is rejected exactly when the parsed price is present (non-zero)
\* and outside [precio_min, precio_max]
C25_PriceDecision ==
    verdict # "pending" => (verdict = "rejected" <=> ParsedPriceOutOfRange)

\* C25 witness: a Kawasaki Z900 at "4.500,50 €" (4500.50, inside 4500..9000)
\* was rejected: the validator read 450050
C25_Witness ==
    /\ modelo_key = "z900"
    /\ moto_data.Precio = Precio4500Coma50
    /\ verdict = "rejected"
    /\ ParsedPrice = [num |-> 45005, exp |-> 1]
    /\ FirstNumber(moto_data.Precio) = 450050

-----------------------------------------------------------------------------
(* The texts the field extractor emits, read back by the parsers *)

\* "0123456789"
DigitChars == <<"0", "1", "2", "3", "4", "5", "6", "7", "8", "9">>

\* str(n) for n >= 0
RECURSIVE str(_)
str(n) ==
    IF n < 10 THEN <<DigitChars[n + 1]>>
    ELSE str(n \div 10) \o <<DigitChars[(n % 10) + 1]>>

\* f"{n:03d}" for 0 <= n < 1000
ThreeDigits(n) ==
    <<DigitChars[(n \div 100) + 1], DigitChars[((n \div 10) % 10) + 1],
      DigitChars[(n % 10) + 1]>>

\* f"{n:,}" for n >= 0
RECURSIVE FormatComma(_)
FormatComma(n) ==
    IF n < 1000 THEN str(n)
    ELSE FormatComma(n \div 1000) \o <<",">> \o ThreeDigits(n % 1000)

\* mutation of _extract_price_from_text_wallapop: the thousands separator
\* of the format is kept
_extract_price_from_text_wallapop_Comma(price_value) ==
    IF 500 <= price_value /\ price_value <= 60000
    THEN FormatComma(price_value) \o <<" ", "€">>
    ELSE NoEspecificado

\* BaseScraper._extract_price_from_text_wallapop, from the integer its
\* patterns found: f"{price_value:,} €".replace(',', '.')
_extract_price_from_text_wallapop(price_value) ==
    IF 500 <= price_value /\ price_value <= 60000
    THEN ReplaceChar(FormatComma(price_value) \o <<" ", "€">>, ",", ".")
    ELSE NoEspecificado

\* BaseScraper.extract_kilometraje_wallapop_fixed, from the mileage its
\* patterns found
extract_kilometraje_wallapop_fixed(km_final) ==
    IF ~(0 <= km_final /\ km_final <= 200000) THEN NoEspecificado
    ELSE IF km_final = 0 THEN <<"0", " ", "k", "m">>
    ELSE IF km_final < 1000 THEN str(km_final) \o <<" ", "k", "m">>
    ELSE ReplaceChar(FormatComma(km_final) \o <<" ", "k", "m">>, ",", ".")

\* the prices tried: the ends of 500..60000, the values around a new digit
\* group, and one value in every 397
EmittedPrices ==
    {v \in 500..60000 :
        v % 397 = 0 \/ v \in {500, 501, 999, 1000, 1001, 7690, 9999, 10000, 10001,
                              12500, 59999, 60000}}

\* the mileages tried: the ends of 0..200000, the values around a new digit
\* group, and one value in every 1327
EmittedKms ==
    {k \in 0..200000 :
        k % 1327 = 0 \/ k \in {0, 1, 9, 10, 99, 100, 999, 1000, 1001, 9999, 10000,
                               15000, 99999, 100000, 100001, 199999, 200000}}

EmittedTexts ==
    {_extract_price_from_text_wallapop(v) : v \in EmittedPrices}
        \cup {extract_kilometraje_wallapop_fixed(k) : k \in EmittedKms}

EmittedInit ==
    /\ text \in EmittedTexts
    /\ op = "none"
    /\ result = NoResult
    /\ modelo_key = "none"
    /\ ValidatorIdle
    /\ CleanerIdle
    /\ ScorerIdle
    /\ PublisherIdle
    /\ RunnerIdle
    /\ ScraperIdle
    /\ AllModelsIdle
    /\ ImporterIdle

\* the number _is_valid_price_range compares with the profile's range
ApplyIsValidPriceRange ==
    /\ op = "none"
    /\ FirstNumber(text) # -1
    /\ op' = "_is_valid_price_range"
    /\ result' = Returned(Dec(FirstNumber(text)))
    /\ UNCHANGED <<text, nonParserVars>>

EmittedNext ==
    \/ ApplyExtractPriceNumber
    \/ ApplyExtractPrice
    \/ ApplyExtractKmNumber
    \/ ApplyExtractKm
    \/ ApplyExtractYear
    \/ ApplyIsValidPriceRange

SpecEmitted == EmittedInit /\ [][EmittedNext]_vars

KmOps == {"_extract_km_number", "_extract_km"}

\* C29: the emitted texts round-trip: the price text of every integer price
\* of 500..60000 is read back as that price by the validators, the Cleaner
\* and the Scorer, and the mileage text of every integer mileage of
\* 0..200000 is read back as that mileage by the Cleaner and the Scorer
C29_RoundTrip ==
    /\ \A v \in EmittedPrices :
          text = _extract_price_from_text_wallapop(v) =>
             /\ op \in PriceOps => result = Returned(Dec(v))
             /\ op = "_is_valid_price_range" =>
                   result = Returned(Dec(v)) /\ JoinedNumber(text) = v
    /\ \A k \in EmittedKms :
          text = extract_kilometraje_wallapop_fixed(k) =>
             (op \in KmOps => result = Returned(Dec(k)))

\* C29 witness: "100.000 km", emitted for 100000, was read back as 100000.0
\* by the Scorer's mileage parser
C29_Witness ==
    /\ text = <<"1", "0", "0", ".", "0", "0", "0", " ", "k", "m">>
    /\ op = "_extract_km"
    /\ result = Returned(Dec(100000))

=============================================================================
